---- MODULE Spec2Model ----
(***************************************************************************)
(* Harvest-and-assemble pipeline of QB_Scrape.                             *)
(*                                                                         *)
(* Four pipelines live in the repository:                                  *)
(*   "QB_Scrape"      src/QB_Scrape.js       scrapeQuestions + generatePdf *)
(*   "QB_Scrape_Ver3" src/QB_Scrape_Ver3.js  scrapeQuestions + generatePdf *)
(*   "part_000"       src/unnamed/part_000   scrape + generatePdf          *)
(*   "part_001"       src/unnamed/part_001   scrape + mergeScrapedWithBase *)
(*                                                                         *)
(* The browser page, the network and the PDF encoder are the environment:  *)
(* every wait either succeeds or times out, every element is present or    *)
(* absent, every fetch answers or fails, chosen with \E.                   *)
(***************************************************************************)
EXTENDS Integers, Sequences, FiniteSets, TLC

(***************************************************************************)
(* Bounds of the model.                                                    *)
(***************************************************************************)
\* numPages handed to the harvest loop (numberOfPages in main)
NumPages == 2
\* longest image group laid out by the layout specification
MaxImages == 5
\* most items merged by the merge specification
MaxItems == 3
\* most pages of the reference document 4B.pdf
MaxBasePages == 13
\* most pages the encoder makes of one item's description
MaxItemPages == 2
\* most choice elements of one page
MaxChoices == 4
\* most calls of processImage in a run of the resolution on its own
MaxResolutions == 3
\* most div.descContent blocks of one page
MaxBlocks == 2
\* largest distance left to scroll, in scroll steps of 100 pixels
MaxGap == 12

(***************************************************************************)
(* JavaScript values.  null / undefined is the empty tuple, a present      *)
(* value v is <<v>>; objects are records and a missing property reads as   *)
(* undefined.                                                              *)
(***************************************************************************)
Null == <<>>

Some(v) == <<v>>

\* obj.field of a JavaScript object: undefined when the property is missing
Get(obj, field) == IF field \in DOMAIN obj THEN Some(obj[field]) ELSE Null

\* truthiness of `arr && arr.length > 0` for an optional array
NonEmptyArray(opt) == opt # Null /\ Len(opt[1]) > 0

Variants == {"QB_Scrape", "QB_Scrape_Ver3", "part_000", "part_001"}

\* the variants whose harvest function is scrape (explanation only)
ScrapeVariants == {"part_000", "part_001"}

\* the variants whose harvest function is scrapeQuestions
QuestionVariants == {"QB_Scrape", "QB_Scrape_Ver3"}

(***************************************************************************)
(* Image references.  scheme is what src.startsWith tests: "data" for an   *)
(* inline payload ("data:..."), "http" for a remote URL, "rel" for any     *)
(* other string.  via tells where the string came from: "page" as read     *)
(* from the DOM, "shot" a data URL built from an element screenshot,       *)
(* "fetch" a data URL built from fetched bytes.                            *)
(***************************************************************************)
Ref(scheme, id, via) == [scheme |-> scheme, id |-> id, via |-> via]

H1 == Ref("http", 1, "page")

H2 == Ref("http", 2, "page")

D1 == Ref("data", 3, "page")

\* `data:image/png;base64,${screenshotData}` of the element showing src
ScreenshotOf(src) == Ref("data", src.id, "shot")

\* `data:${contentType};base64,${base64}` of the bytes fetched from src
FetchedOf(src) == Ref("data", src.id, "fetch")

VARIABLES
    variant,        \* which pipeline runs
    pc,             \* position of the run
    pageIndex,      \* loop counter of the harvest loop (i / pageIndex)
    j,              \* sub-advances done in this iteration (part_000/001)
    problemData,    \* problem record of the current item (scrapeQuestions)
    explanationData, \* explanation record extracted for the current item
    globalBasicData, \* Ver3: the last reference-material block seen
    results,        \* the accumulating result list
    outcome,        \* "running", "returned" or "threw": how the harvest ended
    returned,       \* the list the harvest function returned
    stepLog,        \* what the latest step did to the page, in order
    lastAdvance,    \* outcome of the latest advance step
    contents,       \* the argument main hands to the document stage
    docIndex,       \* items the document stage has assembled
    doc,            \* documentDefinition.content (part_001: docDefinition.content)
    pdfRun,         \* whether the document stage was entered
    basePageCount,  \* pages of the reference document 4B.pdf (part_001)
    mergedPdf,      \* pages of the merged document (part_001)
    group,          \* layout specification: the images of one slot so far
    blocks,         \* layout specification: the blocks laid out for group
    choicesRaw,     \* extraction: the choice texts read from the page
    choices,        \* extraction: the choices stored in the problem record
    questionText,   \* extraction: let questionText of scrapeQuestions
    retries,        \* extraction: let retries of the polling loop
    readLog,        \* extraction: what each read of the question text gave
    fetched,        \* document stage: the references passed to processImage
    cookieHeader,   \* resolution: the cookie header handed to processImage
    answers,        \* resolution: what the environment serves per reference
    resolved,       \* resolution: the calls of processImage and their results
    sectionDom,     \* sections: the div.descContent blocks of the page
    sectionTitle,   \* sections: the title of the section extracted
    sectionText,    \* sections: the value extracted for it
    scrollSite,     \* scroll pass: the call of autoScroll that is running
    gap,            \* scroll pass: scrollHeight - innerHeight - totalHeight
    scrollDone      \* scroll pass: the promise of autoScroll has resolved

vars == <<variant, pc, pageIndex, j, problemData, explanationData,
          globalBasicData, results, outcome, returned, stepLog, lastAdvance,
          contents, docIndex, doc, pdfRun, basePageCount, mergedPdf, group,
          blocks, choicesRaw, choices, questionText, retries, readLog,
          fetched, cookieHeader, answers, resolved, sectionDom, sectionTitle,
          sectionText, scrollSite, gap, scrollDone>>

harvestVars == <<pageIndex, j, problemData, explanationData, globalBasicData,
                 results, outcome, returned, stepLog, lastAdvance>>

docVars == <<contents, docIndex, doc, pdfRun, basePageCount, mergedPdf,
            fetched>>

layoutVars == <<group, blocks>>

extractVars == <<choicesRaw, choices, questionText, retries, readLog>>

resolveVars == <<cookieHeader, answers, resolved>>

sectionVars == <<sectionDom, sectionTitle, sectionText>>

scrollVars == <<scrollSite, gap, scrollDone>>

(***************************************************************************)
(* What the extraction reads from a ready page.  The text of each section  *)
(* is "" when the section is missing; a section that is present carries    *)
(* its own text, so that two sections swapped would show.                  *)
(***************************************************************************)
NoText ==
    [keyword |-> "", explanationPoints |-> "", diagnosis |-> "",
     choicesExplanation |-> "", guideline |-> ""]

AllText ==
    [keyword |-> "k", explanationPoints |-> "p", diagnosis |-> "d",
     choicesExplanation |-> "c", guideline |-> "g"]

SectionNames == DOMAIN NoText

\* no section, each section alone, every section
SectionTexts ==
    {NoText, AllText} \cup {[NoText EXCEPT ![f] = AllText[f]] : f \in SectionNames}

\* the src lists an image block of the page can show
PageImageLists == {<<>>, <<H1>>, <<D1, H2>>}

Captions == {"", "cap"}

\* page.evaluate of scrape: the explanation as read from the DOM
ScrapePages ==
    {[texts |-> t, explanationImages |-> <<>>, imageDiagnosisCaption |-> ""] :
        t \in SectionTexts}
    \cup
    {[texts |-> t, explanationImages |-> im, imageDiagnosisCaption |-> c] :
        t \in {NoText, AllText}, im \in PageImageLists, c \in Captions}

\* the problem part of a page of scrapeQuestions
ProblemPages ==
    {[problemNumber |-> n, questionText |-> "q", problemImageSrcs |-> im,
      problemId |-> "id", choicesRaw |-> <<"A", "B", "A">>] :
        n \in {"1", "2"}, im \in {<<>>, <<H1>>}}

\* div.basic of a page of QB_Scrape_Ver3: absent, or title, text and images
BasicPages ==
    {Null, Some([title |-> "b", textContent |-> "bt", images |-> <<H1>>])}

\* the explanation part of a page of scrapeQuestions
QuestionPages ==
    {[correctAnswer |-> "a", explanationPoints |-> "p", optionAnalysis |-> "o",
      guideline |-> "g", explanationImages |-> im, basic |-> b] :
        im \in {<<>>, <<D1, H2>>}, b \in BasicPages}

(***************************************************************************)
(* Pure steps of the harvest.                                              *)
(***************************************************************************)
\* a deduplication that keeps the last occurrence of each text
RECURSIVE DedupKeepingLast(_)
DedupKeepingLast(s) ==
    IF s = <<>> THEN <<>>
    ELSE LET rest == DedupKeepingLast(Tail(s))
         IN  IF \E k \in 1..Len(rest) : rest[k] = Head(s)
             THEN rest ELSE <<Head(s)>> \o rest

\* [...new Set(choicesRaw)]: first occurrences, in order
RECURSIVE Dedup(_)
Dedup(s) ==
    IF s = <<>> THEN <<>>
    ELSE LET init == Dedup(SubSeq(s, 1, Len(s) - 1))
             last == s[Len(s)]
         IN  IF \E k \in 1..Len(init) : init[k] = last
             THEN init ELSE Append(init, last)

\* a capture pass that leaves out the references it could not capture
CapturePassDroppingFailures(images, shots) ==
    LET kept == SelectSeq([k \in 1..Len(images) |-> <<images[k], shots[k]>>],
                          LAMBDA e : e[1].scheme # "http" \/ e[2])
    IN  [k \in 1..Len(kept) |->
            IF kept[k][1].scheme = "http"
            THEN ScreenshotOf(kept[k][1]) ELSE kept[k][1]]

\* The capture pass over one image list: a remote reference whose element
\* was found and captured becomes the screenshot's data URL, every other
\* entry is pushed unchanged.  shots[k] tells whether capture k succeeded.
CapturePass(images, shots) ==
    [k \in 1..Len(images) |->
        IF images[k].scheme = "http" /\ shots[k]
        THEN ScreenshotOf(images[k]) ELSE images[k]]

\* the outcomes of the captures of one list
ShotOutcomes(images) == [1..Len(images) -> BOOLEAN]

\* explanationData of scrape after the capture pass
ScrapeExplanation(page, shots) ==
    [keyword |-> page.texts.keyword,
     explanationPoints |-> page.texts.explanationPoints,
     diagnosis |-> page.texts.diagnosis,
     choicesExplanation |-> page.texts.choicesExplanation,
     guideline |-> page.texts.guideline,
     explanationImages |-> CapturePass(page.explanationImages, shots),
     imageDiagnosisCaption |-> page.imageDiagnosisCaption]

\* a loop-ending test that also wants the caption empty
AllEmptyWithCaption(e) ==
    /\ e.keyword = ""
    /\ e.explanationPoints = ""
    /\ e.diagnosis = ""
    /\ e.choicesExplanation = ""
    /\ e.guideline = ""
    /\ Len(e.explanationImages) = 0
    /\ e.imageDiagnosisCaption = ""

\* the loop-ending test of scrape: every text section empty and no image
AllEmpty(e) ==
    /\ e.keyword = ""
    /\ e.explanationPoints = ""
    /\ e.diagnosis = ""
    /\ e.choicesExplanation = ""
    /\ e.guideline = ""
    /\ Len(e.explanationImages) = 0

\* const problemData = {}
EmptyObject == [f \in {} |-> ""]

\* problemData of scrapeQuestions; only Ver3 runs the capture pass
ProblemData(v, page, shots) ==
    [problemNumber |-> page.problemNumber,
     questionText |-> page.questionText,
     problemImageSrcs |->
        IF v = "QB_Scrape_Ver3"
        THEN CapturePass(page.problemImageSrcs, shots)
        ELSE page.problemImageSrcs,
     problemId |-> page.problemId,
     choices |-> Dedup(page.choicesRaw)]

\* explanationData of scrapeQuestions; only Ver3 runs the capture pass
QuestionExplanation(v, page, shots) ==
    [correctAnswer |-> page.correctAnswer,
     explanationPoints |-> page.explanationPoints,
     optionAnalysis |-> page.optionAnalysis,
     guideline |-> page.guideline,
     explanationImages |->
        IF v = "QB_Scrape_Ver3"
        THEN CapturePass(page.explanationImages, shots)
        ELSE page.explanationImages]

\* the images of div.basic, none when the block is absent
BasicImages(basic) == IF basic = Null THEN <<>> ELSE basic[1].images

\* basicData of Ver3 after its capture pass (null when div.basic is absent)
BasicData(basic, shots) ==
    IF basic = Null THEN Null
    ELSE Some([title |-> basic[1].title,
               textContent |-> basic[1].textContent,
               images |-> CapturePass(basic[1].images, shots)])

\* combinedData, the record pushed for one item
CombinedData(v, problem, explanation, basic) ==
    IF v = "QB_Scrape_Ver3"
    THEN [problem |-> problem, explanation |-> explanation, basic |-> basic]
    ELSE [problem |-> problem, explanation |-> explanation]

(***************************************************************************)
(* The harvest loop: scrapeQuestions (QB_Scrape, QB_Scrape_Ver3) and       *)
(* scrape (part_000, part_001).  A wait outside every try block that times *)
(* out rejects the harvest function: outcome becomes "threw".              *)
(***************************************************************************)
HarvestInit ==
    /\ pageIndex = 0
    /\ j = 0
    /\ problemData = EmptyObject
    /\ explanationData = EmptyObject
    /\ globalBasicData = Null
    /\ results = <<>>
    /\ outcome = "running"
    /\ returned = <<>>
    /\ stepLog = <<>>
    /\ lastAdvance = "none"

\* an uncaught rejection leaves the harvest function
Throw(log) ==
    /\ outcome' = "threw"
    /\ pc' = "main"
    /\ stepLog' = log
    /\ UNCHANGED <<pageIndex, j, problemData, explanationData,
                   globalBasicData, results, returned, lastAdvance>>

\* The head of the for loop, the settle delay, autoScroll and the wait for
\* the header element, which no try block encloses.
LoopHead ==
    /\ pc = "loop"
    /\ \/ /\ pageIndex >= NumPages
          /\ pc' = "return"
          /\ stepLog' = <<>>
          /\ UNCHANGED <<pageIndex, j, problemData, explanationData,
                         globalBasicData, results, outcome, returned,
                         lastAdvance>>
       \/ /\ pageIndex < NumPages
          /\ pc' = IF variant \in ScrapeVariants THEN "sub" ELSE "problem"
          /\ j' = 0
          /\ stepLog' = <<"scroll", "visible:header">>
          /\ UNCHANGED <<pageIndex, problemData, explanationData,
                         globalBasicData, results, outcome, returned,
                         lastAdvance>>
       \/ /\ pageIndex < NumPages
          /\ Throw(<<"scroll", "timeout:header">>)
    /\ UNCHANGED <<variant, docVars, layoutVars, extractVars, resolveVars,
                   sectionVars, scrollVars>>

\* clickNextQuestion(page, j): every failure inside it is caught and logged
SubAdvanceLogs ==
    { <<"scroll", "timeout:section">>,
      <<"scroll", "visible:section", "absent:sub">>,
      <<"scroll", "visible:section", "click:sub", "timeout:content">>,
      <<"scroll", "visible:section", "click:sub", "visible:content">> }

\* for (let j = 0; j < 3; j++) await clickNextQuestion(page, j)
SubAdvanceCount == 3

\* a sub-advance whose failures leave the harvest uncaught
clickNextQuestionUncaught ==
    /\ pc = "sub"
    /\ j < SubAdvanceCount
    /\ \E log \in SubAdvanceLogs :
          IF log[Len(log)] = "visible:content"
          THEN /\ stepLog' = log
               /\ j' = j + 1
               /\ pc' = IF j + 1 = SubAdvanceCount THEN "answer" ELSE "sub"
               /\ UNCHANGED <<pageIndex, problemData, explanationData,
                              globalBasicData, results, outcome, returned,
                              lastAdvance>>
          ELSE Throw(log)
    /\ UNCHANGED <<variant, docVars, layoutVars, extractVars, resolveVars,
                   sectionVars, scrollVars>>

clickNextQuestion ==
    /\ pc = "sub"
    /\ j < SubAdvanceCount
    /\ \E log \in SubAdvanceLogs : stepLog' = log
    /\ j' = j + 1
    /\ pc' = IF j + 1 = SubAdvanceCount THEN "answer" ELSE "sub"
    /\ UNCHANGED <<variant, pageIndex, problemData, explanationData,
                   globalBasicData, results, outcome, returned, lastAdvance,
                   docVars, layoutVars, extractVars, resolveVars, sectionVars,
                   scrollVars>>

\* autoScroll and the wait for div#answerCbtSection of scrape, outside try
AnswerSection ==
    /\ pc = "answer"
    /\ \/ /\ pc' = "reveal"
          /\ stepLog' = <<"scroll", "visible:section">>
          /\ UNCHANGED <<pageIndex, j, problemData, explanationData,
                         globalBasicData, results, outcome, returned,
                         lastAdvance>>
       \/ Throw(<<"scroll", "timeout:section">>)
    /\ UNCHANGED <<variant, docVars, layoutVars, extractVars, resolveVars,
                   sectionVars, scrollVars>>

\* header, question text, images, choices and id of scrapeQuestions
ExtractProblem ==
    /\ pc = "problem"
    /\ \E page \in ProblemPages :
       \E shots \in ShotOutcomes(page.problemImageSrcs) :
          problemData' = ProblemData(variant, page, shots)
    /\ pc' = "reveal"
    /\ stepLog' = <<>>
    /\ UNCHANGED <<variant, pageIndex, j, explanationData, globalBasicData,
                   results, outcome, returned, lastAdvance, docVars,
                   layoutVars, extractVars, resolveVars, sectionVars,
                   scrollVars>>

\* The try block around the answer-reveal click.  scrape clicks when the
\* button is visible and its label holds the confirmation string;
\* scrapeQuestions clicks when the button is visible and still in the DOM.
\* "label:" is the label scrape read from the button, "shows:" the label
\* the button shows where the code does not read it.
RevealLogs(v) ==
    IF v \in ScrapeVariants
    THEN { <<"timeout:reveal">>,
           <<"visible:reveal", "label:other">>,
           <<"visible:reveal", "label:confirm", "click:reveal">> }
    ELSE { <<"timeout:reveal">>,
           <<"visible:reveal", "absent:reveal">>,
           <<"visible:reveal", "shows:confirm", "click:reveal">>,
           <<"visible:reveal", "shows:other", "click:reveal">> }

Reveal ==
    /\ pc = "reveal"
    /\ \E log \in RevealLogs(variant) : stepLog' = log
    /\ pc' = "explWait"
    /\ UNCHANGED <<variant, pageIndex, j, problemData, explanationData,
                   globalBasicData, results, outcome, returned, lastAdvance,
                   docVars, layoutVars, extractVars, resolveVars, sectionVars,
                   scrollVars>>

\* The wait for the revealed-answer marker.  scrapeQuestions wraps it in a
\* try block whose handler clicks the next-item control when it is in the
\* DOM and continues with the next iteration; scrape does not wrap it.
ExplanationWait ==
    /\ pc = "explWait"
    /\ \/ /\ pc' = "extract"
          /\ stepLog' = <<"visible:marker">>
          /\ UNCHANGED <<pageIndex, j, problemData, explanationData,
                         globalBasicData, results, outcome, returned,
                         lastAdvance>>
       \/ /\ variant \in QuestionVariants
          /\ \E log \in { <<"timeout:marker", "click:next">>,
                          <<"timeout:marker", "absent:next">> } :
                stepLog' = log
          /\ pageIndex' = pageIndex + 1
          /\ pc' = "loop"
          /\ UNCHANGED <<j, problemData, explanationData, globalBasicData,
                         results, outcome, returned, lastAdvance>>
       \/ /\ variant \in ScrapeVariants
          /\ Throw(<<"timeout:marker">>)
    /\ UNCHANGED <<variant, docVars, layoutVars, extractVars, resolveVars,
                   sectionVars, scrollVars>>

\* The rest of an iteration of scrape up to results.push: extraction, the
\* capture pass, the loop-ending test and the push.
ExtractScrape ==
    /\ pc = "extract"
    /\ variant \in ScrapeVariants
    /\ \E page \in ScrapePages :
       \E shots \in ShotOutcomes(page.explanationImages) :
          /\ explanationData' = ScrapeExplanation(page, shots)
          /\ IF AllEmpty(explanationData')
             THEN /\ pc' = "return"
                  /\ results' = results
             ELSE /\ pc' = "advance"
                  /\ results' = Append(results,
                        CombinedData(variant, EmptyObject, explanationData', Null))
    /\ stepLog' = <<>>
    /\ UNCHANGED <<variant, pageIndex, j, problemData, globalBasicData,
                   outcome, returned, lastAdvance, docVars, layoutVars,
                   extractVars, resolveVars, sectionVars, scrollVars>>

\* an extraction that keeps the record of the current item only
ExtractQuestionOverwriting ==
    /\ pc = "extract"
    /\ variant \in QuestionVariants
    /\ \E page \in QuestionPages :
       \E shots \in ShotOutcomes(page.explanationImages) :
       \E basicShots \in ShotOutcomes(BasicImages(page.basic)) :
          LET basicData == IF variant = "QB_Scrape_Ver3"
                           THEN BasicData(page.basic, basicShots) ELSE Null
          IN  /\ explanationData' = QuestionExplanation(variant, page, shots)
              /\ globalBasicData' = IF basicData # Null THEN basicData
                                    ELSE globalBasicData
              /\ results' =
                    << CombinedData(variant, problemData, explanationData',
                                    basicData) >>
    /\ pc' = "advance"
    /\ stepLog' = <<>>
    /\ UNCHANGED <<variant, pageIndex, j, problemData, outcome, returned,
                   lastAdvance, docVars, layoutVars, extractVars, resolveVars,
                   sectionVars, scrollVars>>

\* The rest of an iteration of scrapeQuestions up to results.push:
\* extraction, the capture passes of Ver3 and the push.
ExtractQuestion ==
    /\ pc = "extract"
    /\ variant \in QuestionVariants
    /\ \E page \in QuestionPages :
       \E shots \in ShotOutcomes(page.explanationImages) :
       \E basicShots \in ShotOutcomes(BasicImages(page.basic)) :
          LET basicData == IF variant = "QB_Scrape_Ver3"
                           THEN BasicData(page.basic, basicShots) ELSE Null
          IN  /\ explanationData' = QuestionExplanation(variant, page, shots)
              /\ globalBasicData' = IF basicData # Null THEN basicData
                                    ELSE globalBasicData
              /\ results' = Append(results,
                    CombinedData(variant, problemData, explanationData',
                                 basicData))
    /\ pc' = "advance"
    /\ stepLog' = <<>>
    /\ UNCHANGED <<variant, pageIndex, j, problemData, outcome, returned,
                   lastAdvance, docVars, layoutVars, extractVars, resolveVars,
                   sectionVars, scrollVars>>

\* The try block that advances to the next item: a timeout of either wait
\* is caught and breaks out of the loop.
AdvanceFails(log) == log[Len(log)] \in {"timeout:next", "timeout:header"}

AdvanceLogs ==
    { <<"timeout:next">>,
      <<"visible:next", "click:next", "timeout:header">>,
      <<"visible:next", "absent:next", "timeout:header">>,
      <<"visible:next", "click:next", "visible:header">>,
      <<"visible:next", "absent:next", "visible:header">> }

AdvanceIgnoringFailure ==
    /\ pc = "advance"
    /\ \E log \in AdvanceLogs :
          /\ stepLog' = log
          /\ lastAdvance' = log[Len(log)]
          /\ pc' = "loop"
          /\ pageIndex' = pageIndex + 1
    /\ UNCHANGED <<variant, j, problemData, explanationData, globalBasicData,
                   results, outcome, returned, docVars, layoutVars,
                   extractVars, resolveVars, sectionVars, scrollVars>>

Advance ==
    /\ pc = "advance"
    /\ \E log \in AdvanceLogs :
          /\ stepLog' = log
          /\ lastAdvance' = log[Len(log)]
          /\ IF AdvanceFails(log)
             THEN /\ pc' = "return"
                  /\ pageIndex' = pageIndex
             ELSE /\ pc' = "loop"
                  /\ pageIndex' = pageIndex + 1
    /\ UNCHANGED <<variant, j, problemData, explanationData, globalBasicData,
                   results, outcome, returned, docVars, layoutVars,
                   extractVars, resolveVars, sectionVars, scrollVars>>

\* return results (Ver3: return { results })
Return ==
    /\ pc = "return"
    /\ outcome' = "returned"
    /\ returned' = results
    /\ pc' = "main"
    /\ stepLog' = <<>>
    /\ UNCHANGED <<variant, pageIndex, j, problemData, explanationData,
                   globalBasicData, results, lastAdvance, docVars,
                   layoutVars, extractVars, resolveVars, sectionVars,
                   scrollVars>>

(***************************************************************************)
(* main: what it hands to the document stage.                              *)
(***************************************************************************)
\* the callback of explanationDataArray.map in main (part_000, part_001);
\* scrapeQuestions' main hands the records over as they are
MainContent(v, data) ==
    IF v = "part_000"
    THEN [keyword |-> data.explanation.keyword,
          explanationPoints |-> data.explanation.explanationPoints,
          diagnosis |-> data.explanation.diagnosis,
          choicesExplanation |-> data.explanation.choicesExplanation,
          guideline |-> data.explanation.guideline,
          explanationImageSrcs |-> data.explanation.explanationImages,
          imageDiagnosisCaption |-> data.explanation.imageDiagnosisCaption]
    ELSE IF v = "part_001"
    THEN [explanation |-> data.explanation]
    ELSE data

\* a hand-over that reverses the list
MainContentsReversed(v, list) ==
    [k \in 1..Len(list) |-> MainContent(v, list[Len(list) + 1 - k])]

\* the contents array main hands to generatePdf
MainContents(v, list) == [k \in 1..Len(list) |-> MainContent(v, list[k])]

\* main after the harvest: a rejected harvest skips the document stage
\* (caught by main's try block in part_000/001, by main().catch otherwise)
Main ==
    /\ pc = "main"
    /\ IF outcome = "returned"
       THEN /\ contents' = MainContents(variant, returned)
            /\ pdfRun' = TRUE
            /\ pc' = "pdf"
       ELSE /\ pc' = "done"
            /\ UNCHANGED <<contents, pdfRun>>
    /\ UNCHANGED <<variant, harvestVars, docIndex, doc, basePageCount,
                   mergedPdf, fetched, layoutVars, extractVars, resolveVars,
                   sectionVars, scrollVars>>

(***************************************************************************)
(* Image resolution.  A response is what the environment answers to one    *)
(* call of processImage: net is the fetch ("none" for an inline payload,   *)
(* "throw" a network error, "notok" a non-OK status, "ok" bytes received)  *)
(* and size is what sizeOf makes of the bytes, null when it throws.        *)
(* Widths are in hundredths of a point.                                    *)
(***************************************************************************)
Response(net, size) == [net |-> net, size |-> size]

Dimensions(w) == [width |-> w, height |-> 8000]

\* the responses the environment can give for src, measuring width w
Responses(src, widths) ==
    IF src.scheme = "data"
    THEN {Response("none", Some(Dimensions(w))) : w \in widths}
         \cup (IF src.via = "shot" THEN {} ELSE {Response("none", Null)})
    ELSE IF src.scheme = "http"
    THEN {Response("ok", Some(Dimensions(w))) : w \in widths}
         \cup {Response("ok", Null), Response("notok", Null),
               Response("throw", Null)}
    ELSE {Response("throw", Null)}

\* a resolution that keeps fetched bytes it cannot measure
processImageKeepingUnmeasured(src, resp) ==
    IF src.scheme = "data"
    THEN [dataUrl |-> Some(src), dimensions |-> resp.size]
    ELSE IF resp.net = "ok"
    THEN [dataUrl |-> Some(FetchedOf(src)), dimensions |-> resp.size]
    ELSE [dataUrl |-> Null, dimensions |-> Null]

\* a resolution that gives up an inline payload it cannot decode
processImageDroppingUndecoded(src, resp) ==
    IF src.scheme = "data"
    THEN [dataUrl |-> IF resp.size = Null THEN Null ELSE Some(src),
          dimensions |-> resp.size]
    ELSE IF resp.net = "ok" /\ resp.size # Null
    THEN [dataUrl |-> Some(FetchedOf(src)), dimensions |-> resp.size]
    ELSE [dataUrl |-> Null, dimensions |-> Null]

\* a resolution whose remote branch catches errors as the inline branch
\* does, handing back the reference with null dimensions
processImageCatchingAsInline(src, resp) ==
    IF src.scheme = "data"
    THEN [dataUrl |-> Some(src), dimensions |-> resp.size]
    ELSE IF resp.net = "ok" /\ resp.size # Null
    THEN [dataUrl |-> Some(FetchedOf(src)), dimensions |-> resp.size]
    ELSE IF resp.net = "notok"
    THEN [dataUrl |-> Null, dimensions |-> Null]
    ELSE [dataUrl |-> Some(src), dimensions |-> Null]

\* processImage(src, cookieHeader): { dataUrl, dimensions }
processImage(src, resp) ==
    IF src.scheme = "data"
    THEN [dataUrl |-> Some(src), dimensions |-> resp.size]
    ELSE IF resp.net = "ok" /\ resp.size # Null
    THEN [dataUrl |-> Some(FetchedOf(src)), dimensions |-> resp.size]
    ELSE [dataUrl |-> Null, dimensions |-> Null]

(***************************************************************************)
(* Image layout of the document stage.                                     *)
(***************************************************************************)
\* const availableWidth = 515.28
availableWidth == 51528

\* const maxAllowedWidth = availableWidth / 3 (171.76 in part_001)
maxAllowedWidth == availableWidth \div 3

\* getScaledWidth(obj): `obj.dimensions.width` is tested for truthiness
getScaledWidth(obj) ==
    IF obj.dimensions # Null /\ obj.dimensions[1].width # 0
    THEN IF obj.dimensions[1].width > maxAllowedWidth
         THEN maxAllowedWidth
         ELSE obj.dimensions[1].width
    ELSE maxAllowedWidth

\* text and style of a block; a text is the tuple of the pieces of its string
TextBlock(pieces, style) == [text |-> pieces, style |-> style]

ErrorBlock(errText) == TextBlock(<<errText>>, "error")

ImageMargin == <<0, 5, 0, 5>>

\* the block pushed for a group of one image
SingleImage(img, errText) ==
    IF img.dataUrl # Null
    THEN [image |-> img.dataUrl[1], width |-> getScaledWidth(img),
          margin |-> ImageMargin]
    ELSE ErrorBlock(errText)

\* one cell of the two-row table
Cell(img, errText) ==
    IF img.dataUrl # Null
    THEN [image |-> img.dataUrl[1], width |-> getScaledWidth(img)]
    ELSE ErrorBlock(errText)

\* row2.push({ text: "" })
PaddingCell == [text |-> <<"">>]

\* Math.ceil(total / 2)
FirstRowCount(total) == (total + 1) \div 2

\* a table whose second row is left unpadded
TableBodyUnpadded(processedImages, errText) ==
    LET total == Len(processedImages)
        firstRowCount == FirstRowCount(total)
    IN  << [i \in 1..firstRowCount |-> Cell(processedImages[i], errText)],
           [i \in 1..(total - firstRowCount) |->
               Cell(processedImages[firstRowCount + i], errText)] >>

\* tableBody of a group of total > 1 images
TableBody(processedImages, errText) ==
    LET total == Len(processedImages)
        firstRowCount == FirstRowCount(total)
        row1 == [i \in 1..firstRowCount |-> Cell(processedImages[i], errText)]
        cells2 == [i \in 1..(total - firstRowCount) |->
                      Cell(processedImages[firstRowCount + i], errText)]
        row2 == cells2 \o [i \in 1..(firstRowCount - Len(cells2)) |-> PaddingCell]
    IN  IF total > firstRowCount THEN <<row1, row2>> ELSE <<row1>>

\* the blocks pushed for the images of one slot: nothing for a missing or
\* empty list, one block for one image, one borderless table otherwise
ImageBlocks(srcs, errText, resps) ==
    IF ~NonEmptyArray(srcs) THEN <<>>
    ELSE LET total == Len(srcs[1])
             processedImages ==
                 [i \in 1..total |-> processImage(srcs[1][i], resps[i])]
         IN  IF total = 1
             THEN <<SingleImage(processedImages[1], errText)>>
             ELSE << [table |->
                        [widths |->
                            [i \in 1..Len(TableBody(processedImages, errText)[1])
                                |-> "*"],
                         body |-> TableBody(processedImages, errText)],
                      layout |-> "noBorders",
                      margin |-> ImageMargin] >>

\* the references an optional list hands to processImage, in call order:
\* every element of a non-empty list, each once
Processed(srcs) == IF NonEmptyArray(srcs) THEN srcs[1] ELSE <<>>

\* every way the environment can answer the calls for one image list
RECURSIVE ResponseSeqs(_, _)
ResponseSeqs(srcs, widths) ==
    IF srcs = <<>> THEN {<<>>}
    ELSE {<<r>> \o rest : r \in Responses(Head(srcs), widths),
                          rest \in ResponseSeqs(Tail(srcs), widths)}

\* the answers to the calls made for an optional list: none when the
\* property read is missing, so that no call is made
SlotResponses(srcs, widths) ==
    IF srcs = Null THEN {<<>>} ELSE ResponseSeqs(srcs[1], widths)

(***************************************************************************)
(* The document stage.  Strings of the source are rendered in ASCII:       *)
(*   "Explanation" 解説, "KeyPoints" 解法の要点, "Diagnosis" 診断,         *)
(*   "ChoiceAnalysis" 選択肢解説, "Guideline" ガイドライン,                *)
(*   "ImageDiagnosis" 画像診断, "CorrectAnswer" 正解, "Basics" 基本事項など *)
(*   "ProblemNumber: " 問題番号: , "ProblemId: " 問題ID: ,                 *)
(*   "ExplanationImageError" 解説画像読み込みエラー,                       *)
(*   "ProblemImageError" 問題画像読み込みエラー,                           *)
(*   "BasicImageError" 基本事項画像読み込みエラー.                         *)
(***************************************************************************)
\* { text: '', pageBreak: 'after' }
PageBreak == [text |-> <<"">>, pageBreak |-> "after"]

\* a header block and the text block of its section
Section(title, text) ==
    << TextBlock(<<title>>, "explanationHeader"), TextBlock(<<text>>, "analysis") >>

\* the caption block under the diagnostic images
CaptionBlock(caption) ==
    [text |-> <<caption>>, style |-> "analysis", margin |-> ImageMargin]

\* the five text sections with the diagnosis ahead of the key points
ExplanationSectionsDiagnosisFirst(e) ==
    Section("KEYWORD", e.keyword)
    \o Section("Diagnosis", e.diagnosis)
    \o Section("KeyPoints", e.explanationPoints)
    \o Section("ChoiceAnalysis", e.choicesExplanation)
    \o Section("Guideline", e.guideline)

\* the five text sections in their declared order
ExplanationSections(e) ==
    Section("KEYWORD", e.keyword)
    \o Section("KeyPoints", e.explanationPoints)
    \o Section("Diagnosis", e.diagnosis)
    \o Section("ChoiceAnalysis", e.choicesExplanation)
    \o Section("Guideline", e.guideline)

\* an assembler that opens every item with the page break
ItemBlocks000BreakFirst(content, resps) ==
    << PageBreak, TextBlock(<<"Explanation">>, "explanationHeader") >>
    \o (IF NonEmptyArray(Get(content, "explanationImageSrcs"))
        THEN ImageBlocks(Get(content, "explanationImageSrcs"),
                         "ExplanationImageError", resps)
             \o (IF content.imageDiagnosisCaption # ""
                 THEN <<CaptionBlock(content.imageDiagnosisCaption)>>
                 ELSE <<>>)
        ELSE <<>>)
    \o ExplanationSections(content)

\* part_000 generatePdf: the blocks of one iteration of `for (const content
\* of contents)`; the caption is pushed inside the image branch only
ItemBlocks000(content, resps) ==
    << TextBlock(<<"Explanation">>, "explanationHeader") >>
    \o (IF NonEmptyArray(Get(content, "explanationImageSrcs"))
        THEN ImageBlocks(Get(content, "explanationImageSrcs"),
                         "ExplanationImageError", resps)
             \o (IF content.imageDiagnosisCaption # ""
                 THEN <<CaptionBlock(content.imageDiagnosisCaption)>>
                 ELSE <<>>)
        ELSE <<>>)
    \o ExplanationSections(content)
    \o <<PageBreak>>

\* part_001 generateSingleQuestionPdfBuffer: docDefinition.content
SingleQuestionContent(content, resps) ==
    << TextBlock(<<"Explanation">>, "explanationHeader"),
       TextBlock(<<"ImageDiagnosis">>, "explanationHeader") >>
    \o ImageBlocks(Get(content, "explanationImages"),
                   "ExplanationImageError", resps)
    \o <<CaptionBlock(content.imageDiagnosisCaption)>>
    \o ExplanationSections(content)

\* the problem page of scrapeQuestions' generatePdf up to the images
ProblemHeader(problem) ==
    << TextBlock(<<"ProblemNumber: ", problem.problemNumber>>, "header"),
       TextBlock(<<"ProblemId: ", problem.problemId>>, "header"),
       TextBlock(<<problem.questionText>>, "question") >>

\* the choices list and the page break that close the problem page
ProblemFooter(problem) ==
    (IF Len(problem.choices) > 0
     THEN <<[ul |-> problem.choices, style |-> "choices"]>> ELSE <<>>)
    \o <<PageBreak>>

\* the text sections of scrapeQuestions' explanation page
QuestionSections(e) ==
    Section("KeyPoints", e.explanationPoints)
    \o Section("ChoiceAnalysis", e.optionAnalysis)
    \o (IF e.correctAnswer # ""
        THEN << TextBlock(<<"CorrectAnswer">>, "explanationHeader"),
                TextBlock(<<e.correctAnswer>>, "correctAnswer") >>
        ELSE <<>>)
    \o Section("Guideline", e.guideline)

\* QB_Scrape.js: the fetch + FileReader branch pushes one error block per
\* image reference (FileReader is no global of Node, the catch block runs)
FileReaderBlocks(srcs, errText) ==
    IF ~NonEmptyArray(srcs) THEN <<>>
    ELSE [i \in 1..Len(srcs[1]) |-> ErrorBlock(errText)]

\* QB_Scrape.js generatePdf: the blocks of one item.  The image lists are
\* read as content.problemImageSrcs and content.explanation.explanationImageSrcs.
ItemBlocksQB(content) ==
    ProblemHeader(content.problem)
    \o FileReaderBlocks(Get(content, "problemImageSrcs"), "ProblemImageError")
    \o ProblemFooter(content.problem)
    \o << TextBlock(<<"Explanation">>, "explanationHeader") >>
    \o FileReaderBlocks(Get(content.explanation, "explanationImageSrcs"),
                        "ExplanationImageError")
    \o QuestionSections(content.explanation)
    \o <<PageBreak>>

\* the reference-material block of Ver3: title, text and images
BasicBlocks(basic, resps) ==
    IF basic = Null THEN <<>>
    ELSE << TextBlock(<<IF basic[1].title # "" THEN basic[1].title ELSE "Basics">>,
                      "explanationHeader"),
            TextBlock(<<basic[1].textContent>>, "analysis") >>
         \o ImageBlocks(Get(basic[1], "images"), "BasicImageError", resps)

\* QB_Scrape_Ver3.js generatePdf: the blocks of one item.  The explanation
\* images are read as content.explanation.explanationImageSrcs.
ItemBlocksVer3(content, problemResps, explanationResps, basicResps) ==
    ProblemHeader(content.problem)
    \o ImageBlocks(Get(content.problem, "problemImageSrcs"),
                   "ProblemImageError", problemResps)
    \o ProblemFooter(content.problem)
    \o << TextBlock(<<"Explanation">>, "explanationHeader") >>
    \o ImageBlocks(Get(content.explanation, "explanationImageSrcs"),
                   "ExplanationImageError", explanationResps)
    \o QuestionSections(content.explanation)
    \o BasicBlocks(content.basic, basicResps)
    \o <<PageBreak>>

\* the width the bytes of the document stage's images measure
PdfWidths == {10000}

\* for (const content of contents), one iteration, part_000
GeneratePdf000 ==
    /\ pc = "pdf"
    /\ variant = "part_000"
    /\ docIndex < Len(contents)
    /\ LET content == contents[docIndex + 1]
       IN  \E resps \in SlotResponses(Get(content, "explanationImageSrcs"),
                                      PdfWidths) :
              doc' = doc \o ItemBlocks000(content, resps)
    /\ fetched' = fetched
                    \o Processed(Get(contents[docIndex + 1],
                                     "explanationImageSrcs"))
    /\ docIndex' = docIndex + 1
    /\ UNCHANGED <<variant, pc, harvestVars, contents, pdfRun, basePageCount,
                   mergedPdf, layoutVars, extractVars, resolveVars,
                   sectionVars, scrollVars>>

\* for (const content of contents), one iteration, QB_Scrape.js
GeneratePdfQB ==
    /\ pc = "pdf"
    /\ variant = "QB_Scrape"
    /\ docIndex < Len(contents)
    /\ doc' = doc \o ItemBlocksQB(contents[docIndex + 1])
    /\ docIndex' = docIndex + 1
    /\ UNCHANGED <<variant, pc, harvestVars, contents, pdfRun, basePageCount,
                   mergedPdf, fetched, layoutVars, extractVars, resolveVars,
                   sectionVars, scrollVars>>

\* for (const content of contents), one iteration, QB_Scrape_Ver3.js
GeneratePdfVer3 ==
    /\ pc = "pdf"
    /\ variant = "QB_Scrape_Ver3"
    /\ docIndex < Len(contents)
    /\ LET content == contents[docIndex + 1]
       IN  \E problemResps \in
                SlotResponses(Get(content.problem, "problemImageSrcs"), PdfWidths) :
           \E explanationResps \in
                SlotResponses(Get(content.explanation, "explanationImageSrcs"),
                              PdfWidths) :
           \E basicResps \in
                SlotResponses(IF content.basic = Null THEN Null
                              ELSE Get(content.basic[1], "images"), PdfWidths) :
              doc' = doc \o ItemBlocksVer3(content, problemResps,
                                           explanationResps, basicResps)
    /\ LET content == contents[docIndex + 1]
       IN  fetched' = fetched
                \o Processed(Get(content.problem, "problemImageSrcs"))
                \o Processed(Get(content.explanation, "explanationImageSrcs"))
                \o Processed(IF content.basic = Null THEN Null
                             ELSE Get(content.basic[1], "images"))
    /\ docIndex' = docIndex + 1
    /\ UNCHANGED <<variant, pc, harvestVars, contents, pdfRun, basePageCount,
                   mergedPdf, layoutVars, extractVars, resolveVars,
                   sectionVars, scrollVars>>

\* pdfMake.createPdf(documentDefinition) after the loop
WritePdf ==
    /\ pc = "pdf"
    /\ variant # "part_001"
    /\ docIndex = Len(contents)
    /\ pc' = "done"
    /\ UNCHANGED <<variant, harvestVars, docVars, layoutVars, extractVars,
                   resolveVars, sectionVars, scrollVars>>

(***************************************************************************)
(* part_001: mergeScrapedWithBase.  A page of the merged document is a     *)
(* copy of page `page` of the reference document, or of page `page` of the *)
(* document generated for item `item` (both counted from 0).               *)
(***************************************************************************)
\* for (let j = 0; j < 4; j++)
GroupSize == 4

BasePage(pageIdx) == [from |-> "base", page |-> pageIdx]

ScrapedPage(i, k) == [from |-> "scraped", item |-> i, page |-> k]

\* a copy loop without the pageIndex < basePageCount test
BaseGroupUnchecked(i, pageCount) ==
    [jj \in 1..GroupSize |-> BasePage(i * GroupSize + jj - 1)]

\* the reference pages copied for item i: i*4+j for j = 0..3, when in range
BaseGroup(i, pageCount) ==
    LET idx == [jj \in 1..GroupSize |-> i * GroupSize + jj - 1]
        kept == SelectSeq(idx, LAMBDA x : x < pageCount)
    IN  [n \in 1..Len(kept) |-> BasePage(kept[n])]

\* the pages copied from the document generated for item i
ScrapedPages(i, scrapedPageCount) ==
    [k \in 1..scrapedPageCount |-> ScrapedPage(i, k - 1)]

\* a merge that generates pages only for the items that have reference pages
MergeItemWithinReference ==
    /\ pc = "pdf"
    /\ variant = "part_001"
    /\ docIndex < Len(contents)
    /\ LET content == contents[docIndex + 1].explanation
       IN  \E resps \in SlotResponses(Get(content, "explanationImages"),
                                      PdfWidths) :
              doc' = SingleQuestionContent(content, resps)
    /\ fetched' = fetched
                    \o Processed(Get(contents[docIndex + 1].explanation,
                                     "explanationImages"))
    /\ \E scrapedPageCount \in 1..MaxItemPages :
          mergedPdf' = IF BaseGroup(docIndex, basePageCount) = <<>>
                       THEN mergedPdf
                       ELSE mergedPdf \o BaseGroup(docIndex, basePageCount)
                                      \o ScrapedPages(docIndex, scrapedPageCount)
    /\ docIndex' = docIndex + 1
    /\ UNCHANGED <<variant, pc, harvestVars, contents, pdfRun, basePageCount,
                   layoutVars, extractVars, resolveVars, sectionVars,
                   scrollVars>>

\* for (let i = 0; i < numQuestions; i++), one iteration
MergeItem ==
    /\ pc = "pdf"
    /\ variant = "part_001"
    /\ docIndex < Len(contents)
    /\ LET content == contents[docIndex + 1].explanation
       IN  \E resps \in SlotResponses(Get(content, "explanationImages"),
                                      PdfWidths) :
              doc' = SingleQuestionContent(content, resps)
    /\ fetched' = fetched
                    \o Processed(Get(contents[docIndex + 1].explanation,
                                     "explanationImages"))
    /\ \E scrapedPageCount \in 1..MaxItemPages :
          mergedPdf' = mergedPdf \o BaseGroup(docIndex, basePageCount)
                                 \o ScrapedPages(docIndex, scrapedPageCount)
    /\ docIndex' = docIndex + 1
    /\ UNCHANGED <<variant, pc, harvestVars, contents, pdfRun, basePageCount,
                   layoutVars, extractVars, resolveVars, sectionVars,
                   scrollVars>>

\* mergedPdf.save() after the loop
SaveMerged ==
    /\ pc = "pdf"
    /\ variant = "part_001"
    /\ docIndex = Len(contents)
    /\ pc' = "done"
    /\ UNCHANGED <<variant, harvestVars, docVars, layoutVars, extractVars,
                   resolveVars, sectionVars, scrollVars>>

(***************************************************************************)
(* The layout of one image group, for groups of up to MaxImages images.    *)
(***************************************************************************)
LayoutWidths == {0, 10000, 90000}

\* an image of a group with the answer the environment gives for it
LayoutPairs ==
    {[src |-> D1, resp |-> r] : r \in Responses(D1, {17177})}
    \cup {[src |-> H1, resp |-> r] : r \in Responses(H1, LayoutWidths)}

GroupSrcs(g) == [i \in 1..Len(g) |-> g[i].src]

GroupResps(g) == [i \in 1..Len(g) |-> g[i].resp]

\* the document stage lays out a slot that holds one more image
LayoutImages ==
    /\ pc = "layout"
    /\ Len(group) < MaxImages
    /\ \E pair \in LayoutPairs :
          /\ group' = Append(group, pair)
          /\ blocks' = ImageBlocks(Some(GroupSrcs(group')),
                                   "ExplanationImageError", GroupResps(group'))
    /\ UNCHANGED <<variant, pc, harvestVars, docVars, extractVars,
                   resolveVars, sectionVars, scrollVars>>

(***************************************************************************)
(* Specifications.                                                         *)
(***************************************************************************)
IdleDoc ==
    /\ contents = <<>>
    /\ docIndex = 0
    /\ doc = <<>>
    /\ pdfRun = FALSE
    /\ mergedPdf = <<>>
    /\ fetched = <<>>

IdleLayout ==
    /\ group = <<>>
    /\ blocks = <<>>

IdleExtract ==
    /\ choicesRaw = <<>>
    /\ choices = <<>>
    /\ questionText = <<>>
    /\ retries = 0
    /\ readLog = <<>>

IdleResolve ==
    /\ cookieHeader = Null
    /\ answers = <<>>
    /\ resolved = <<>>

IdleSection ==
    /\ sectionDom = <<>>
    /\ sectionTitle = <<>>
    /\ sectionText = <<>>

IdleScroll ==
    /\ scrollSite = "none"
    /\ gap = 0
    /\ scrollDone = FALSE

\* a run of a pipeline from the start of its harvest to the hand-over of
\* the harvested list to the document stage
Init ==
    /\ variant \in Variants
    /\ pc = "loop"
    /\ HarvestInit
    /\ IdleDoc
    /\ basePageCount = 0
    /\ IdleLayout
    /\ IdleExtract
    /\ IdleResolve
    /\ IdleSection
    /\ IdleScroll

Next ==
    \/ LoopHead
    \/ clickNextQuestion
    \/ AnswerSection
    \/ ExtractProblem
    \/ Reveal
    \/ ExplanationWait
    \/ ExtractScrape
    \/ ExtractQuestion
    \/ Advance
    \/ Return
    \/ Main

Spec == Init /\ [][Next]_vars

(***************************************************************************)
(* The document stage on its own: SpecPdf starts where a harvest has       *)
(* returned a list of up to MaxItems records, built by the harvest's own   *)
(* constructors from three sample pages per variant.                       *)
(***************************************************************************)
SamplePage(texts, images, caption) ==
    [texts |-> texts, explanationImages |-> images,
     imageDiagnosisCaption |-> caption]

\* records of scrape: every section, a caption and no image; a keyword,
\* a captured remote image and a caption; no section and two images left
\* as read
ScrapeSamples(v) ==
    { CombinedData(v, EmptyObject,
          ScrapeExplanation(SamplePage(AllText, <<>>, "note"), <<>>), Null),
      CombinedData(v, EmptyObject,
          ScrapeExplanation(
              SamplePage([NoText EXCEPT !.keyword = "k"], <<H1>>, "cap"),
              <<TRUE>>), Null),
      CombinedData(v, EmptyObject,
          ScrapeExplanation(SamplePage(NoText, <<D1, H2>>, ""),
                            <<FALSE, FALSE>>), Null) }

SampleProblem(n, images) ==
    [problemNumber |-> n, questionText |-> "q", problemImageSrcs |-> images,
     problemId |-> "id", choicesRaw |-> <<"A", "B", "A">>]

SampleQuestion(images, basic) ==
    [correctAnswer |-> "a", explanationPoints |-> "p", optionAnalysis |-> "o",
     guideline |-> "g", explanationImages |-> images, basic |-> basic]

SampleBasic == Some([title |-> "b", textContent |-> "bt", images |-> <<H1>>])

\* records of scrapeQuestions: no image; a problem image and two
\* explanation images; a reference-material block with a captured image
QuestionSamples(v) ==
    { CombinedData(v, ProblemData(v, SampleProblem("1", <<>>), <<>>),
          QuestionExplanation(v, SampleQuestion(<<>>, Null), <<>>), Null),
      CombinedData(v, ProblemData(v, SampleProblem("2", <<H1>>), <<FALSE>>),
          QuestionExplanation(v, SampleQuestion(<<D1, H2>>, Null),
                              <<FALSE, FALSE>>), Null),
      CombinedData(v, ProblemData(v, SampleProblem("3", <<>>), <<>>),
          QuestionExplanation(v, SampleQuestion(<<>>, SampleBasic), <<>>),
          BasicData(SampleBasic, <<TRUE>>)) }

SampleRecords(v) ==
    IF v \in ScrapeVariants THEN ScrapeSamples(v) ELSE QuestionSamples(v)

\* the lists a harvest can return: scrape also returns the empty list, when
\* its first item is empty
HarvestedLists(v) ==
    UNION {[1..n -> SampleRecords(v)] :
              n \in (IF v \in ScrapeVariants THEN 0 ELSE 1)..MaxItems}

\* the last reference-material block a harvest of Ver3 saw
LastBasic(v, list) ==
    LET seen == {k \in 1..Len(list) :
                    v = "QB_Scrape_Ver3" /\ list[k].basic # Null}
    IN  IF seen = {} THEN Null
        ELSE list[CHOOSE k \in seen : \A m \in seen : m <= k].basic

\* The state in which the harvest returned list: its last advance timed out
\* after the last record (or, for the empty list, the first item was empty).
Harvested(list) ==
    /\ results = list
    /\ returned = list
    /\ outcome = "returned"
    /\ stepLog = <<>>
    /\ pageIndex = IF list = <<>> THEN 0 ELSE Len(list) - 1
    /\ j = IF variant \in ScrapeVariants THEN SubAdvanceCount ELSE 0
    /\ lastAdvance = IF list = <<>> THEN "none" ELSE "timeout:next"
    /\ problemData = IF list = <<>> THEN EmptyObject
                     ELSE list[Len(list)].problem
    /\ explanationData =
          IF list = <<>>
          THEN ScrapeExplanation(SamplePage(NoText, <<>>, ""), <<>>)
          ELSE list[Len(list)].explanation
    /\ globalBasicData = LastBasic(variant, list)

InitPdf ==
    /\ variant \in Variants
    /\ pc = "main"
    /\ \E list \in HarvestedLists(variant) : Harvested(list)
    /\ IdleDoc
    /\ basePageCount \in
          IF variant = "part_001" THEN 0..MaxBasePages ELSE {0}
    /\ IdleLayout
    /\ IdleExtract
    /\ IdleResolve
    /\ IdleSection
    /\ IdleScroll

NextPdf ==
    \/ Main
    \/ GeneratePdf000
    \/ GeneratePdfQB
    \/ GeneratePdfVer3
    \/ WritePdf
    \/ MergeItem
    \/ SaveMerged

SpecPdf == InitPdf /\ [][NextPdf]_vars

\* the layout of one image slot, for every group of up to MaxImages images
InitLayout ==
    /\ variant = "part_000"
    /\ pc = "layout"
    /\ Harvested(<<>>)
    /\ IdleDoc
    /\ basePageCount = 0
    /\ IdleLayout
    /\ IdleExtract
    /\ IdleResolve
    /\ IdleSection
    /\ IdleScroll

NextLayout == LayoutImages

SpecLayout == InitLayout /\ [][NextLayout]_vars

(***************************************************************************)
(* The field extraction on its own: SpecExtract reads the parts of one     *)
(* page of scrapeQuestions element by element.                             *)
(***************************************************************************)
(***************************************************************************)
(* Texts that the code trims are tuples of characters, " " standing for    *)
(* any white space; "" is <<>>.  The marker 【問題文なし】 is rendered as  *)
(* one character that no page text holds.                                  *)
(***************************************************************************)
RECURSIVE TrimStart(_)
TrimStart(t) ==
    IF t # <<>> /\ Head(t) = " " THEN TrimStart(Tail(t)) ELSE t

RECURSIVE TrimEnd(_)
TrimEnd(t) ==
    IF t # <<>> /\ t[Len(t)] = " "
    THEN TrimEnd(SubSeq(t, 1, Len(t) - 1)) ELSE t

\* String.prototype.trim
Trim(t) == TrimEnd(TrimStart(t))

\* questionText = "【問題文なし】"
NoQuestionText == <<"[NoQuestionText]">>

\* const maxRetries = 60 (QB_Scrape.js), 120 (QB_Scrape_Ver3.js)
maxRetries(v) == IF v = "QB_Scrape_Ver3" THEN 120 ELSE 60

\* what `.question-content .body p` can be at one read: missing, or an
\* element with this innerText
Paragraphs ==
    {Null, Some(<<>>), Some(<<" ">>), Some(<<"q">>),
     Some(<<" ", "q", " ", "r", " ">>)}

\* return pElem ? pElem.innerText.trim() : ""
ReadParagraph(pElem) == IF pElem = Null THEN <<>> ELSE Trim(pElem[1])

\* a polling loop that stores whatever the last read gave
PollQuestionTextWithoutMarker ==
    /\ pc = "poll"
    /\ retries < maxRetries(variant) /\ Trim(questionText) = <<>>
    /\ \E pElem \in Paragraphs :
          LET text == ReadParagraph(pElem)
              last == Trim(text) # <<>> \/ retries + 1 >= maxRetries(variant)
          IN  /\ readLog' = Append(readLog, text)
              /\ retries' = IF Trim(text) # <<>> THEN retries ELSE retries + 1
              /\ questionText' = text
              /\ pc' = IF last THEN "extractPage" ELSE "poll"
    /\ UNCHANGED <<variant, harvestVars, docVars, layoutVars, resolveVars,
                   choicesRaw, choices, sectionVars, scrollVars>>

\* One iteration of while (retries < maxRetries && questionText.trim() ===
\* "") with, when it is the last, the marker fallback that follows the loop.
PollQuestionText ==
    /\ pc = "poll"
    /\ retries < maxRetries(variant) /\ Trim(questionText) = <<>>
    /\ \E pElem \in Paragraphs :
          LET text == ReadParagraph(pElem)
              last == Trim(text) # <<>> \/ retries + 1 >= maxRetries(variant)
          IN  /\ readLog' = Append(readLog, text)
              /\ retries' = IF Trim(text) # <<>> THEN retries ELSE retries + 1
              /\ questionText' = IF last /\ Trim(text) = <<>>
                                 THEN NoQuestionText ELSE text
              /\ pc' = IF last THEN "extractPage" ELSE "poll"
    /\ UNCHANGED <<variant, harvestVars, docVars, layoutVars, resolveVars,
                   choicesRaw, choices, sectionVars, scrollVars>>

\* the trimmed texts the choice elements can show
ChoiceTexts == {"A", "B", "C"}

\* elems.forEach(el => { if (txt) arr.push(txt) }) for one more element, and
\* const choices = [...new Set(choicesRaw)] on the list read
ReadChoice ==
    /\ pc = "extractPage"
    /\ Len(choicesRaw) < MaxChoices
    /\ \E txt \in ChoiceTexts : choicesRaw' = Append(choicesRaw, txt)
    /\ choices' = Dedup(choicesRaw')
    /\ UNCHANGED <<variant, pc, harvestVars, docVars, layoutVars, resolveVars,
                   questionText, retries, readLog, sectionVars, scrollVars>>

InitExtract ==
    /\ variant \in QuestionVariants
    /\ pc = "poll"
    /\ HarvestInit
    /\ IdleDoc
    /\ basePageCount = 0
    /\ IdleLayout
    /\ IdleExtract
    /\ IdleResolve
    /\ IdleSection
    /\ IdleScroll

NextExtract ==
    \/ PollQuestionText
    \/ ReadChoice

SpecExtract == InitExtract /\ [][NextExtract]_vars

(***************************************************************************)
(* The text sections of the explanation: SpecSection extracts one section  *)
(* from the div.descContent blocks of a page.  A block has a title element *)
(* (null when missing) and the texts of its .descContent--detail elements. *)
(* Titles are one character each: "KEYWORD", "KeyPoints" 解法の要点,       *)
(* "Diagnosis" 診断, "ChoiceAnalysis" 選択肢解説, "Guideline" ガイドライン; *)
(* "NoKeyPoints" is 解法の要点なし.                                        *)
(***************************************************************************)
\* the sections a variant extracts
SectionTitles(v) ==
    IF v \in ScrapeVariants
    THEN {<<"KEYWORD">>, <<"KeyPoints">>, <<"Diagnosis">>,
          <<"ChoiceAnalysis">>, <<"Guideline">>}
    ELSE {<<"KeyPoints">>, <<"ChoiceAnalysis">>, <<"Guideline">>}

BlockTitles ==
    {Null, Some(<<"KeyPoints">>), Some(<<" ", "KeyPoints", " ">>),
     Some(<<"Guideline">>)}

BlockDetails ==
    {<<>>, << <<" ", "x">> >>, << <<" ", "x">>, <<"y", " ">> >>}

DescContents == [title : BlockTitles, details : BlockDetails]

SectionDoms == UNION {[1..n -> DescContents] : n \in 0..MaxBlocks}

\* block.querySelector('.descContent--title')?.innerText.trim()
TitleOf(block) == IF block.title = Null THEN Null ELSE Some(Trim(block.title[1]))

\* Array.from(document.querySelectorAll("div.descContent")).find(...): the
\* index of the first block with that trimmed title, 0 when there is none
FindSection(dom, title) ==
    IF \E k \in 1..Len(dom) : TitleOf(dom[k]) = Some(title)
    THEN CHOOSE k \in 1..Len(dom) :
            /\ TitleOf(dom[k]) = Some(title)
            /\ \A m \in 1..(k - 1) : TitleOf(dom[m]) # Some(title)
    ELSE 0

\* details.map(detail => detail.innerText.trim()).join("\n")
RECURSIVE JoinTrimmed(_)
JoinTrimmed(details) ==
    IF details = <<>> THEN <<>>
    ELSE IF Len(details) = 1 THEN Trim(details[1])
    ELSE Trim(details[1]) \o <<"\n">> \o JoinTrimmed(Tail(details))

\* block.querySelector('.descContent--detail')?.innerText.trim() || ''
FirstDetail(block) ==
    IF block.details = <<>> THEN <<>> ELSE Trim(block.details[1])

\* the value a variant stores for the section titled title: scrape joins
\* the details of the block; scrapeQuestions takes the first detail, and
\* for the key points stores a marker when the block is missing
SectionValue(v, dom, title) ==
    LET k == FindSection(dom, title)
    IN  IF v \in ScrapeVariants
        THEN IF k = 0 THEN <<>> ELSE JoinTrimmed(dom[k].details)
        ELSE IF k # 0 THEN FirstDetail(dom[k])
        ELSE IF title = <<"KeyPoints">> THEN <<"NoKeyPoints">>
        ELSE <<>>

\* page.evaluate of the explanation, for one section of one page, once
ExtractSection ==
    /\ pc = "sections"
    /\ sectionTitle = <<>>
    /\ \E dom \in SectionDoms : \E title \in SectionTitles(variant) :
          /\ sectionDom' = dom
          /\ sectionTitle' = title
          /\ sectionText' = SectionValue(variant, dom, title)
    /\ UNCHANGED <<variant, pc, harvestVars, docVars, layoutVars, extractVars,
                   resolveVars, scrollVars>>

InitSection ==
    /\ variant \in Variants
    /\ pc = "sections"
    /\ HarvestInit
    /\ IdleDoc
    /\ basePageCount = 0
    /\ IdleLayout
    /\ IdleExtract
    /\ IdleResolve
    /\ IdleSection
    /\ IdleScroll

NextSection == ExtractSection

SpecSection == InitSection /\ [][NextSection]_vars

(***************************************************************************)
(* autoScroll on its own: SpecScroll runs the interval timer of one call.  *)
(* Heights are counted in scroll steps (distance = 100 pixels).  The code  *)
(* compares totalHeight with scrollHeight - innerHeight only, so the state *)
(* kept is their difference, gap, as read at the start of a tick.  Between *)
(* two ticks the page may grow by lazily rendered content.                 *)
(***************************************************************************)
\* the calls of autoScroll in the harvest function of a variant
ScrollSites(v) ==
    IF v \in ScrapeVariants
    THEN {"loopHead", "clickNextQuestion", "answerSection"}
    ELSE {"loopHead"}

\* by how many scroll steps the page can grow between two ticks
GrowthSteps == {0, 1, 2}

\* One run of the setInterval callback: scrollBy, totalHeight += distance,
\* and clearInterval + resolve when totalHeight >= scrollHeight -
\* innerHeight; otherwise the timer fires again after the page has grown.
ScrollTick ==
    /\ pc = "autoScroll"
    /\ ~scrollDone
    /\ IF gap <= 1
       THEN /\ scrollDone' = TRUE
            /\ gap' = gap
       ELSE /\ scrollDone' = FALSE
            /\ \E g \in GrowthSteps :
                  /\ gap - 1 + g <= MaxGap
                  /\ gap' = gap - 1 + g
    /\ UNCHANGED <<variant, pc, harvestVars, docVars, layoutVars, extractVars,
                   resolveVars, sectionVars, scrollSite>>

InitScroll ==
    /\ variant \in Variants
    /\ pc = "autoScroll"
    /\ HarvestInit
    /\ IdleDoc
    /\ basePageCount = 0
    /\ IdleLayout
    /\ IdleExtract
    /\ IdleResolve
    /\ IdleSection
    /\ scrollSite \in ScrollSites(variant)
    /\ gap \in 0..MaxGap
    /\ scrollDone = FALSE

NextScroll == ScrollTick

\* the interval timer keeps firing until it is cleared
SpecScroll == InitScroll /\ [][NextScroll]_vars /\ WF_vars(ScrollTick)

(***************************************************************************)
(* processImage on its own: SpecResolve calls it on references in any      *)
(* order, repeats included.  What a reference serves is the environment's: *)
(* answers[src][cookie] is the response to a call for src that carries     *)
(* cookie, drawn at the start and the same for the whole run.  An inline   *)
(* payload is decoded without a request, so its answer ignores the cookie. *)
(***************************************************************************)
\* the variants that have a processImage
ResolveVariants == {"part_000", "part_001", "QB_Scrape_Ver3"}

\* the cookie header main builds from page.cookies(); Ver3 passes none
CookieHeaders(v) ==
    IF v = "QB_Scrape_Ver3" THEN {Null} ELSE {Null, Some("session=1")}

ResolveRefs == {H1, D1}

ResolveWidths == {10000}

\* a resolution that uses up the cookie header it was handed
ResolveImageSpendingCookie ==
    /\ pc = "resolve"
    /\ Len(resolved) < MaxResolutions
    /\ \E src \in ResolveRefs :
          resolved' =
              Append(resolved,
                     [src |-> src,
                      resp |-> answers[src][cookieHeader],
                      result |-> processImage(src, answers[src][cookieHeader])])
    /\ cookieHeader' = Null
    /\ UNCHANGED <<variant, pc, harvestVars, docVars, layoutVars, extractVars,
                   answers, sectionVars, scrollVars>>

\* processImage(src, cookieHeader) once more
ResolveImage ==
    /\ pc = "resolve"
    /\ Len(resolved) < MaxResolutions
    /\ \E src \in ResolveRefs :
          resolved' =
              Append(resolved,
                     [src |-> src,
                      resp |-> answers[src][cookieHeader],
                      result |-> processImage(src, answers[src][cookieHeader])])
    /\ UNCHANGED <<variant, pc, harvestVars, docVars, layoutVars, extractVars,
                   cookieHeader, answers, sectionVars, scrollVars>>

InitResolve ==
    /\ variant \in ResolveVariants
    /\ pc = "resolve"
    /\ HarvestInit
    /\ IdleDoc
    /\ basePageCount = 0
    /\ IdleLayout
    /\ IdleExtract
    /\ cookieHeader \in CookieHeaders(variant)
    /\ \E remote \in [CookieHeaders(variant) -> Responses(H1, ResolveWidths)] :
       \E inline \in Responses(D1, ResolveWidths) :
          answers = [src \in ResolveRefs |->
                        IF src = H1 THEN remote
                        ELSE [c \in CookieHeaders(variant) |-> inline]]
    /\ resolved = <<>>
    /\ IdleSection
    /\ IdleScroll

NextResolve == ResolveImage

SpecResolve == InitResolve /\ [][NextResolve]_vars

(***************************************************************************)
(* Properties of the harvest loop, under Spec.                             *)
(***************************************************************************)
AfterLoop == {"return", "main", "pdf", "done"}

FailedAdvance == {"timeout:next", "timeout:header"}

Range(seq) == {seq[k] : k \in 1..Len(seq)}

\* C1: when the advance step fails after a record was appended (the
\* next-item control does not become visible, or the header of the next
\* item does not appear after the click), the loop stops with the record of
\* the current item kept, no further record is appended, the harvest
\* function does not throw and what it returns is exactly the accumulated
\* list.
C1_AdvanceFailureReturnsAccumulated ==
    /\ [][(pc = "advance" /\ lastAdvance' \in FailedAdvance)
            => /\ pc' = "return"
               /\ results' = results
               /\ Len(results) >= 1]_vars
    /\ [][(lastAdvance \in FailedAdvance) => results' = results]_vars
    /\ [](lastAdvance \in FailedAdvance
            => /\ pc \in AfterLoop
               /\ outcome # "threw"
               /\ outcome = "returned" => returned = results)

\* the advance of the first of two items failed on the header wait and the
\* harvest returned that one record
C1_Witness ==
    /\ lastAdvance = "timeout:header"
    /\ outcome = "returned"
    /\ pageIndex = 0
    /\ Len(returned) = 1
    /\ pc = "pdf"

\* C2: whatever waits time out inside the harvest loop, the harvest
\* function does not leave by an uncaught exception: once the loop is left
\* the function has returned its list, and the document stage runs on it.
C2_NoWaitTimeoutEscapes ==
    /\ pc \in {"main", "pdf", "done"} => outcome = "returned"
    /\ pc \in {"pdf", "done"}
          => pdfRun /\ contents = MainContents(variant, returned)

\* C4: in scrape, an item whose five text sections are empty and whose
\* image list is empty ends the loop: no record is appended for it, the
\* advance step is not entered and clicks nothing, and the records appended
\* before it are what the function returns.
C4_AllEmptyItemEndsLoop ==
    /\ [][(pc = "extract" /\ variant \in ScrapeVariants
             /\ explanationData'.keyword = ""
             /\ explanationData'.explanationPoints = ""
             /\ explanationData'.diagnosis = ""
             /\ explanationData'.choicesExplanation = ""
             /\ explanationData'.guideline = ""
             /\ explanationData'.explanationImages = <<>>)
            => /\ pc' = "return"
               /\ results' = results
               /\ lastAdvance' = lastAdvance
               /\ "click:next" \notin Range(stepLog')]_vars
    /\ [][(pc = "return")
            => /\ returned' = results
               /\ results' = results
               /\ outcome' = "returned"
               /\ "click:next" \notin Range(stepLog')]_vars

\* the second item of a run of part_000 was empty (caption apart): the
\* harvest returned the one record appended before it, after one
\* successful advance
C4_Witness ==
    /\ variant = "part_000"
    /\ outcome = "returned"
    /\ pageIndex = 1
    /\ lastAdvance = "visible:header"
    /\ Len(returned) = 1
    /\ AllEmpty(explanationData)
    /\ explanationData.imageDiagnosisCaption = "cap"

\* C5: in every variant, when the revealed-answer marker does not become
\* visible within its wait, no record is appended for the item, one
\* best-effort click of the next-item control is attempted and the loop
\* goes on with the next iteration; it neither stops nor throws.
C5_MarkerTimeoutSkipsItem ==
    [][(pc = "explWait" /\ stepLog'[1] = "timeout:marker")
         => /\ results' = results
            /\ stepLog' \in { <<"timeout:marker", "click:next">>,
                              <<"timeout:marker", "absent:next">> }
            /\ pc' = "loop"
            /\ pageIndex' = pageIndex + 1
            /\ outcome' = "running"]_vars

(***************************************************************************)
(* Properties of the document stage, under SpecPdf.                        *)
(***************************************************************************)
\* page breaks that close one item: scrapeQuestions' generatePdf breaks
\* after the problem page and after the explanation page
BreaksPerItem(v) == IF v \in QuestionVariants THEN 2 ELSE 1

BreaksBefore(d, i) == Cardinality({m \in 1..(i - 1) : d[m] = PageBreak})

\* the blocks of d that lie in the section of item k (counted from 1)
ItemSection(v, d, k) ==
    LET idx == {i \in 1..Len(d) :
                   BreaksBefore(d, i) \div BreaksPerItem(v) + 1 = k}
    IN  IF idx = {} THEN <<>>
        ELSE SubSeq(d, CHOOSE i \in idx : \A m \in idx : i <= m,
                       CHOOSE i \in idx : \A m \in idx : i >= m)

IsStyled(b, style) == "style" \in DOMAIN b /\ b.style = style

\* the texts a section shows in its body blocks, in order (the caption
\* block, which carries a margin, apart)
AnalysisTexts(sec) ==
    LET sel == SelectSeq(sec, LAMBDA b :
                   IsStyled(b, "analysis") /\ "margin" \notin DOMAIN b)
    IN  [i \in 1..Len(sel) |-> sel[i].text[1]]

\* the problem numbers a section shows in its header blocks
ProblemNumbers(sec) ==
    LET sel == SelectSeq(sec, LAMBDA b :
                   IsStyled(b, "header") /\ b.text[1] = "ProblemNumber: ")
    IN  [i \in 1..Len(sel) |-> sel[i].text[2]]

\* what identifies an item in its section of the document
SectionKey(v, sec) ==
    IF v \in QuestionVariants
    THEN ProblemNumbers(sec) \o AnalysisTexts(sec)
    ELSE AnalysisTexts(sec)

\* the same identification read from the harvested record
RecordKey(v, r) ==
    IF v \in QuestionVariants
    THEN << r.problem.problemNumber, r.explanation.explanationPoints,
            r.explanation.optionAnalysis, r.explanation.guideline >>
         \o (IF v = "QB_Scrape_Ver3" /\ r.basic # Null
             THEN <<r.basic[1].textContent>> ELSE <<>>)
    ELSE << r.explanation.keyword, r.explanation.explanationPoints,
            r.explanation.diagnosis, r.explanation.choicesExplanation,
            r.explanation.guideline >>

ScrapedPagesOf(m) == SelectSeq(m, LAMBDA x : x.from = "scraped")

BasePagesOf(m) == SelectSeq(m, LAMBDA x : x.from = "base")

\* the items whose page groups the merged document holds, in order
ScrapedGroups(m) ==
    LET firsts == SelectSeq(ScrapedPagesOf(m), LAMBDA x : x.page = 0)
    IN  [i \in 1..Len(firsts) |-> firsts[i].item]

\* C3: the per-item sections of the assembled document (the per-item page
\* groups of the merged document) follow the order in which the records
\* were appended during the harvest: section k shows record k, and no
\* record is dropped or shown twice.
C3_OrderPreserved ==
    /\ pc \in {"pdf", "done"}
          => Len(contents) = Len(returned) /\ docIndex <= Len(returned)
    /\ pc = "done" => docIndex = Len(returned)
    /\ variant # "part_001"
          => /\ BreaksBefore(doc, Len(doc) + 1) = docIndex * BreaksPerItem(variant)
             /\ \A k \in 1..docIndex :
                   SectionKey(variant, ItemSection(variant, doc, k))
                      = RecordKey(variant, returned[k])
    /\ variant = "part_001"
          => /\ docIndex > 0
                   => SectionKey(variant, doc) = RecordKey(variant, returned[docIndex])
             /\ ScrapedGroups(mergedPdf) = [i \in 1..docIndex |-> i - 1]
             /\ \A a \in 1..Len(ScrapedPagesOf(mergedPdf)) - 1 :
                   ScrapedPagesOf(mergedPdf)[a].item
                      <= ScrapedPagesOf(mergedPdf)[a + 1].item

\* part_000 assembled three records that differ from one another
C3_Witness ==
    /\ variant = "part_000"
    /\ pc = "done"
    /\ docIndex = 3
    /\ Len(returned) = 3
    /\ returned[1] # returned[2]
    /\ returned[2] # returned[3]
    /\ returned[1] # returned[3]

IsSlot(b) == "image" \in DOMAIN b \/ IsStyled(b, "error")

CellCount(row) == Cardinality({i \in 1..Len(row) : IsSlot(row[i])})

\* image blocks and error placeholders of one block
BlockSlots(b) ==
    IF "table" \in DOMAIN b
    THEN CellCount(b.table.body[1])
         + (IF Len(b.table.body) > 1 THEN CellCount(b.table.body[2]) ELSE 0)
    ELSE IF IsSlot(b) THEN 1 ELSE 0

RECURSIVE ImageSlots(_)
ImageSlots(sec) ==
    IF sec = <<>> THEN 0 ELSE BlockSlots(Head(sec)) + ImageSlots(Tail(sec))

LenOrZero(opt) == IF opt = Null THEN 0 ELSE Len(opt[1])

\* the image references a harvested record stores
NumRefs(v, r) ==
    LenOrZero(Get(r.problem, "problemImageSrcs"))
    + LenOrZero(Get(r.explanation, "explanationImages"))
    + (IF v = "QB_Scrape_Ver3" /\ r.basic # Null
       THEN Len(r.basic[1].images) ELSE 0)

\* C6: for every harvested record, the section of its item holds one image
\* block or one error placeholder for each image reference the record
\* stores (problem, explanation and reference-material images): none is
\* left out because the assembler reads another field than the harvest
\* wrote.
C6_EveryImageRefHasASlot ==
    /\ variant # "part_001"
          => \A k \in 1..docIndex :
                ImageSlots(ItemSection(variant, doc, k))
                   = NumRefs(variant, returned[k])
    /\ variant = "part_001" /\ docIndex > 0
          => ImageSlots(doc) = NumRefs(variant, returned[docIndex])

\* C8: after n items, the merged document of mergeScrapedWithBase holds,
\* for i = 0..n-1 in order, the reference pages i*4 .. min(i*4+3, P-1) in
\* increasing order, then every page generated for item i; no page index
\* at or beyond P is ever copied.
C8_MergeStriding ==
    variant = "part_001" =>
        LET m == mergedPdf
            copied == IF 4 * docIndex < basePageCount
                      THEN 4 * docIndex ELSE basePageCount
            scr == ScrapedPagesOf(m)
        IN  /\ BasePagesOf(m) = [q \in 1..copied |-> BasePage(q - 1)]
            /\ docIndex > 0 => Len(scr) > 0 /\ scr[Len(scr)].item = docIndex - 1
            /\ \A a \in 1..Len(scr) :
                  /\ scr[a].page = 0
                        => IF a = 1 THEN scr[a].item = 0
                           ELSE scr[a].item = scr[a - 1].item + 1
                  /\ scr[a].page > 0
                        => a > 1 /\ scr[a - 1] = ScrapedPage(scr[a].item,
                                                              scr[a].page - 1)
            /\ \A a \in 1..Len(m) : \A b \in 1..Len(m) :
                  (m[a].from = "base" /\ m[b].from = "scraped")
                     => (a < b <=> m[a].page \div 4 <= m[b].item)

\* a reference document of 10 pages merged with 3 items of one page each:
\* groups [0-3], [4-7] and the short group [8-9]
C8_Witness ==
    /\ variant = "part_001"
    /\ pc = "done"
    /\ basePageCount = 10
    /\ Len(returned) = 3
    /\ mergedPdf = << BasePage(0), BasePage(1), BasePage(2), BasePage(3),
                      ScrapedPage(0, 0),
                      BasePage(4), BasePage(5), BasePage(6), BasePage(7),
                      ScrapedPage(1, 0),
                      BasePage(8), BasePage(9),
                      ScrapedPage(2, 0) >>

(***************************************************************************)
(* Properties of the image layout, under SpecLayout.                       *)
(***************************************************************************)
\* the block or table cell at the place of image i of a group of k images:
\* the single block when k = 1, else row 1 for the first ceil(k/2) images
\* and row 2 for the rest
SlotAt(bs, k, i) ==
    IF k = 1 THEN bs[1]
    ELSE LET half == (k + 1) \div 2
         IN  IF i <= half THEN bs[1].table.body[1][i]
             ELSE bs[1].table.body[2][i - half]

\* the fetch of a remote reference failed, or its bytes cannot be measured
ResolutionFails(pair) ==
    /\ pair.src.scheme = "http"
    /\ pair.resp.net # "ok" \/ pair.resp.size = Null

\* the data URL an image is embedded with when its resolution succeeds
Embedded(src) == IF src.scheme = "data" THEN src ELSE FetchedOf(src)

\* C7: when the resolution of a remote reference fails (fetch throws,
\* non-OK status, unmeasurable bytes), processImage returns dataUrl null
\* and the layout holds an error placeholder at the place of that image:
\* the single block when k = 1, the cell of the same row and column when
\* k > 1; every other image of the group is rendered at its own place.
C7_FailedImageBecomesPlaceholder ==
    pc = "layout" =>
        /\ Len(blocks) = IF group = <<>> THEN 0 ELSE 1
        /\ \A i \in 1..Len(group) :
              LET slot == SlotAt(blocks, Len(group), i)
              IN  IF ResolutionFails(group[i])
                  THEN /\ processImage(group[i].src, group[i].resp)
                             = [dataUrl |-> Null, dimensions |-> Null]
                       /\ "image" \notin DOMAIN slot
                       /\ slot.text = <<"ExplanationImageError">>
                       /\ slot.style = "error"
                  ELSE /\ "image" \in DOMAIN slot
                       /\ slot.image = Embedded(group[i].src)

\* five images, the fourth of which answers with a non-OK status: the
\* placeholder is the first cell of row 2, the four others are rendered
C7_Witness ==
    /\ pc = "layout"
    /\ Len(group) = 5
    /\ group[4] = [src |-> H1, resp |-> Response("notok", Null)]
    /\ \A i \in {1, 2, 3, 5} : ~ResolutionFails(group[i])
    /\ blocks[1].table.body[2][1] = ErrorBlock("ExplanationImageError")
    /\ "image" \in DOMAIN blocks[1].table.body[2][2]

IsPadding(c) == DOMAIN c = {"text"} /\ c.text = <<"">>

\* C9: a group of k >= 2 images is laid out as a table of exactly two rows
\* of ceil(k/2) cells each: row 1 holds images 0..ceil(k/2)-1 in order,
\* row 2 holds the remaining images in order and then ceil(k/2) -
\* floor(k/2) empty padding cells, so that exactly k cells are not padding.
C9_TwoRowGrid ==
    (pc = "layout" /\ Len(group) >= 2) =>
        LET k == Len(group)
            up == (k + 1) \div 2
            down == k \div 2
            body == blocks[1].table.body
            img(i) == processImage(group[i].src, group[i].resp)
        IN  /\ Len(blocks) = 1
            /\ Len(body) = 2
            /\ Len(body[1]) = up
            /\ Len(body[2]) = up
            /\ Len(blocks[1].table.widths) = up
            /\ \A i \in 1..up :
                  body[1][i] = Cell(img(i), "ExplanationImageError")
            /\ \A i \in 1..down :
                  body[2][i] = Cell(img(up + i), "ExplanationImageError")
            /\ \A i \in (down + 1)..up : IsPadding(body[2][i])
            /\ Cardinality({c \in 1..up : ~IsPadding(body[1][c])})
                 + Cardinality({c \in 1..up : ~IsPadding(body[2][c])}) = k

\* five images: three cells in row 1, two cells and one padding cell in row 2
C9_Witness ==
    /\ pc = "layout"
    /\ Len(group) = 5
    /\ Len(blocks[1].table.body[1]) = 3
    /\ Len(blocks[1].table.body[2]) = 3
    /\ ~IsPadding(blocks[1].table.body[2][2])
    /\ IsPadding(blocks[1].table.body[2][3])

\* C10: an image that is rendered and whose natural width w is present is
\* rendered at min(w, maxAllowedWidth), maxAllowedWidth being 171.76; the
\* render width never exceeds maxAllowedWidth, and an image is rendered at
\* the placeholder width maxAllowedWidth by default only when it has no
\* width.
C10_WidthIsClampedNaturalWidth ==
    pc = "layout" =>
        \A i \in 1..Len(group) :
            LET img == processImage(group[i].src, group[i].resp)
                slot == SlotAt(blocks, Len(group), i)
            IN  img.dataUrl # Null =>
                   /\ slot.width <= 17176
                   /\ img.dimensions # Null
                         => slot.width = IF img.dimensions[1].width < 17176
                                         THEN img.dimensions[1].width
                                         ELSE 17176
                   /\ img.dimensions = Null => slot.width = 17176

\* C14: in the explanation-only variants an item with at least one
\* non-empty extracted field, the image caption included, or with an image
\* is appended as a record and does not end the loop.
C14_OnlyWhollyEmptyItemEndsLoop ==
    [][(pc = "extract" /\ variant \in ScrapeVariants
          /\ \/ explanationData'.keyword # ""
             \/ explanationData'.explanationPoints # ""
             \/ explanationData'.diagnosis # ""
             \/ explanationData'.choicesExplanation # ""
             \/ explanationData'.guideline # ""
             \/ explanationData'.imageDiagnosisCaption # ""
             \/ explanationData'.explanationImages # <<>>)
         => /\ pc' = "advance"
            /\ Len(results') = Len(results) + 1
            /\ results'[Len(results')].explanation = explanationData']_vars

\* C15: the last reference-material block seen is state of the harvest
\* function only: once scrapeQuestions has returned or thrown, no value of
\* it is left for the rest of the program or a later call to read.
C15_LastBasicScopedToHarvest ==
    outcome # "running" => globalBasicData = Null

\* C16: the reveal step clicks only when the control became visible and
\* its label is the confirmation string; with or without the click the
\* loop goes on to the wait for the explanation of the same item.
C16_RevealClickNeedsMatchingLabel ==
    [][(pc = "reveal")
         => /\ pc' = "explWait"
            /\ pageIndex' = pageIndex
            /\ "click:reveal" \in Range(stepLog')
                  => /\ "visible:reveal" \in Range(stepLog')
                     /\ Range(stepLog') \cap {"label:confirm", "shows:confirm"}
                           # {}]_vars

\* the ways a sub-advance fails: the section wait times out, the button is
\* missing, the content wait times out
FailedSubAdvance == {"timeout:section", "absent:sub", "timeout:content"}

\* C17: in the multi-stage variants the reveal stage of an item is entered
\* after exactly three sub-advance attempts, counted from zero at the head
\* of the iteration; an attempt, failed or not, counts one, leaves the
\* harvest running on the same item with its records untouched, and is
\* followed by the next attempt or, after the third, by the reveal stage.
C17_ThreeSubAdvancesWhateverOutcome ==
    /\ [](pc = "answer" => j = SubAdvanceCount /\ SubAdvanceCount = 3)
    /\ [](pc = "sub" => j < SubAdvanceCount)
    /\ [][(pc # "sub" /\ pc' = "sub") => j' = 0]_vars
    /\ [][(pc # "answer" /\ pc' = "answer") => pc = "sub"]_vars
    /\ [][(pc = "sub")
            => /\ j' = j + 1
               /\ pc' = (IF j' = SubAdvanceCount THEN "answer" ELSE "sub")
               /\ outcome' = outcome
               /\ results' = results
               /\ pageIndex' = pageIndex]_vars

\* the third sub-advance of an item found no button, and the item is at
\* its reveal stage with the harvest still running
C17_Witness ==
    /\ variant = "part_000"
    /\ pc = "answer"
    /\ j = 3
    /\ outcome = "running"
    /\ stepLog[Len(stepLog)] = "absent:sub"
    /\ stepLog[Len(stepLog)] \in FailedSubAdvance

(***************************************************************************)
(* Properties of the field extraction, under SpecExtract.                  *)
(***************************************************************************)
\* the index of the first occurrence of x in seq
FirstIndex(seq, x) ==
    CHOOSE k \in 1..Len(seq) :
        seq[k] = x /\ \A m \in 1..(k - 1) : seq[m] # x

\* C11: the choices stored hold each distinct text of the list read exactly
\* once, in the order of first occurrence in that list, and no text that
\* was not read.
C11_ChoicesDedupFirstOccurrence ==
    pc = "extractPage" =>
        /\ Range(choices) = Range(choicesRaw)
        /\ \A a \in 1..Len(choices) : \A b \in 1..Len(choices) :
              a # b => choices[a] # choices[b]
        /\ \A a \in 1..Len(choices) : \A b \in 1..Len(choices) :
              a < b => FirstIndex(choicesRaw, choices[a])
                          < FirstIndex(choicesRaw, choices[b])

\* the list [A, B, A, C] was read and [A, B, C] is stored
C11_Witness ==
    /\ pc = "extractPage"
    /\ choicesRaw = <<"A", "B", "A", "C">>
    /\ choices = <<"A", "B", "C">>

\* C13: in one run no image reference is handed to processImage twice:
\* the references fetched so far are pairwise distinct.
C13_EachReferenceResolvedOnce ==
    \A a \in 1..Len(fetched) : \A b \in 1..Len(fetched) :
        a # b => fetched[a] # fetched[b]

\* what holds of the polling loop when it may read at most `most` times
PollingWithin(most) ==
    /\ Len(readLog) <= most
    /\ \A k \in 1..(Len(readLog) - 1) : readLog[k] = <<>>
    /\ pc = "extractPage"
          => /\ questionText # <<>>
             /\ Trim(questionText) # <<>>
             /\ Len(readLog) >= 1
             /\ IF readLog[Len(readLog)] # <<>>
                THEN questionText = readLog[Len(readLog)]
                ELSE questionText = NoQuestionText /\ Len(readLog) = most

\* C18 as stated: the polling loop reads the page at most 60 times, stops
\* at the first non-empty read, and the text stored is that read or, when
\* all 60 reads were empty, the marker; it is never empty.
C18_PollingAtMostSixtyReads == PollingWithin(60)

\* C18 amended: the same with the number of reads that the variant allows,
\* 60 in QB_Scrape.js and 120 in QB_Scrape_Ver3.js.
C18_PollingWithinMaxRetries == PollingWithin(maxRetries(variant))

\* all 120 reads of a run of QB_Scrape_Ver3.js were empty and the marker
\* is stored
C18_Witness ==
    /\ variant = "QB_Scrape_Ver3"
    /\ pc = "extractPage"
    /\ Len(readLog) = 120
    /\ questionText = NoQuestionText

(***************************************************************************)
(* Properties of the section extraction, under SpecSection.                *)
(***************************************************************************)
\* C19: the value extracted for a named section is the empty string when
\* no block of the page has that trimmed title, and otherwise the trimmed
\* texts of all detail elements of the block, joined by newlines.
C19_SectionIsJoinedDetailsOrEmpty ==
    sectionTitle # <<>>
        => LET k == FindSection(sectionDom, sectionTitle)
           IN  sectionText = IF k = 0 THEN <<>>
                             ELSE JoinTrimmed(sectionDom[k].details)

C20_InlinePayloadKept ==
    \A k \in 1..Len(resolved) :
        resolved[k].src.scheme = "data"
            => /\ resolved[k].result.dataUrl = Some(resolved[k].src)
               /\ resolved[k].result.dimensions = Null
                     <=> resolved[k].resp.size = Null

\* an inline payload that does not decode was resolved
C20_Witness ==
    /\ Len(resolved) >= 1
    /\ resolved[1].src = D1
    /\ resolved[1].resp.size = Null
    /\ resolved[1].result = [dataUrl |-> Some(D1), dimensions |-> Null]

(***************************************************************************)
(* Properties of the explanation page, under SpecPdf.                      *)
(***************************************************************************)
\* the titles of the text sections in their declared order
DeclaredTitles ==
    <<"KEYWORD", "KeyPoints", "Diagnosis", "ChoiceAnalysis", "Guideline">>

\* the texts of a record's sections in the same order
DeclaredTexts(e) ==
    <<e.keyword, e.explanationPoints, e.diagnosis, e.choicesExplanation,
      e.guideline>>

IsImageBlock(b) == "table" \in DOMAIN b \/ IsSlot(b)

IsCaptionBlock(b) == IsStyled(b, "analysis") /\ "margin" \in DOMAIN b

IsHeader(b, title) == IsStyled(b, "explanationHeader") /\ b.text = <<title>>

\* the positions of sec that hold the header titled title
HeaderAt(sec, title) == {i \in 1..Len(sec) : IsHeader(sec[i], title)}

\* sec shows the explanation e in the declared order: images, then the
\* caption, then each section as its header followed by its text
InDeclaredOrder(sec, e) ==
    \A hs \in {[n \in 1..Len(DeclaredTitles)
                   |-> HeaderAt(sec, DeclaredTitles[n])]} :
    \A imgs \in {{i \in 1..Len(sec) : IsImageBlock(sec[i])}} :
    \A caps \in {{i \in 1..Len(sec) : IsCaptionBlock(sec[i])}} :
       /\ \A n \in 1..Len(DeclaredTitles) :
             /\ Cardinality(hs[n]) = 1
             /\ \A i \in hs[n] :
                   /\ i < Len(sec)
                   /\ sec[i + 1] = TextBlock(<<DeclaredTexts(e)[n]>>, "analysis")
                   /\ n < Len(DeclaredTitles) => hs[n + 1] = {i + 2}
       /\ \A i \in imgs : \A m \in caps : i < m
       /\ \A i \in imgs \cup caps : \A m \in hs[1] : i < m
       /\ Cardinality(caps) <= 1

\* the explanation the assembler reads for item k of the contents
ExplanationOf(k) ==
    IF variant = "part_001" THEN contents[k].explanation ELSE contents[k]

\* C21: in the explanation page of every item the image blocks come
\* first, then the caption block, then KEYWORD, key points, diagnosis,
\* choice analysis and guideline, each as a header block directly followed
\* by its text block; no section stands before an earlier one of the list.
\* Stated of the item laid out last, for every item as it is laid out.
C21_ExplanationPageOrder ==
    /\ (variant = "part_000" /\ docIndex > 0)
          => \A sec \in {ItemSection(variant, doc, docIndex)} :
                InDeclaredOrder(sec, ExplanationOf(docIndex))
    /\ (variant = "part_001" /\ docIndex > 0)
          => InDeclaredOrder(doc, ExplanationOf(docIndex))

\* part_000 laid out an item with one image, a caption and a keyword: the
\* image block, the caption block and the KEYWORD header follow the title
C21_Witness ==
    /\ variant = "part_000"
    /\ docIndex >= 1
    /\ Len(doc) >= 4
    /\ IsImageBlock(doc[2])
    /\ IsCaptionBlock(doc[3])
    /\ doc[3].text = <<"cap">>
    /\ IsHeader(doc[4], "KEYWORD")
    /\ doc[5].text = <<"k">>

\* the image list the assembler of the variant reads from an explanation
AssemblerImages(e) ==
    Get(e, IF variant = "part_001" THEN "explanationImages"
           ELSE "explanationImageSrcs")

\* C22: an item that has no images and a non-empty image-diagnosis caption
\* shows that caption in its page of the assembled document.
C22_CaptionShownWithoutImages ==
    (variant \in ScrapeVariants /\ docIndex > 0)
        => LET e == ExplanationOf(docIndex)
               sec == IF variant = "part_001" THEN doc
                      ELSE ItemSection(variant, doc, docIndex)
           IN  (~NonEmptyArray(AssemblerImages(e))
                   /\ e.imageDiagnosisCaption # "")
                  => \E i \in 1..Len(sec) :
                        /\ IsCaptionBlock(sec[i])
                        /\ sec[i].text = <<e.imageDiagnosisCaption>>

\* C23: in the description generatePdf builds, the blocks of an item are
\* appended after everything emitted before, the last of them is the empty
\* text block with pageBreak 'after', and so the description ends with a
\* page-break block as soon as one item is laid out.
C23_ItemEndsWithPageBreak ==
    /\ []((variant # "part_001" /\ docIndex > 0)
            => /\ Len(doc) > 0
               /\ doc[Len(doc)] = [text |-> <<"">>, pageBreak |-> "after"])
    /\ [][(variant # "part_001" /\ docIndex' = docIndex + 1)
            => /\ Len(doc') > Len(doc)
               /\ SubSeq(doc', 1, Len(doc)) = doc
               /\ doc'[Len(doc')] = [text |-> <<"">>, pageBreak |-> "after"]
               /\ \A i \in (Len(doc) + 1)..(Len(doc') - 1) :
                     BreaksBefore(doc', i) - BreaksBefore(doc, Len(doc) + 1)
                        < BreaksPerItem(variant)]_vars

\* part_000 laid out two items: the description holds two page breaks and
\* ends with the second
C23_Witness ==
    /\ variant = "part_000"
    /\ docIndex = 2
    /\ pc = "done"
    /\ BreaksBefore(doc, Len(doc) + 1) = 2
    /\ doc[Len(doc)] = PageBreak
    /\ \E i \in 1..(Len(doc) - 1) : doc[i] = PageBreak /\ i + 1 < Len(doc)

(***************************************************************************)
(* Properties of the steps of an iteration, under Spec.                    *)
(***************************************************************************)
\* C24: every wait for the header element, at the head of an iteration or
\* after the next-item click, directly follows a scroll pass in the log of
\* its step: nothing, and no click in particular, lies between the two.
C24_ScrollBeforeReadinessCheck ==
    \A i \in 1..Len(stepLog) :
        stepLog[i] \in {"visible:header", "timeout:header"}
            => i > 1 /\ stepLog[i - 1] = "scroll"

\* the log entry of the successful visibility wait for the control that
\* a click entry clicks
VisibilityWaitOf(click) ==
    CASE click = "click:reveal" -> "visible:reveal"
      [] click = "click:sub" -> "visible:sub"
      [] click = "click:next" -> "visible:next"

\* C26: every click of the harvest loop (reveal, sub-advance, next item,
\* best-effort advance after an explanation timeout) comes, in the log of
\* its step, after a successful visibility wait for the control clicked.
C26_ClickAfterVisibilityWait ==
    \A i \in 1..Len(stepLog) :
        stepLog[i] \in {"click:reveal", "click:sub", "click:next"}
            => \E m \in 1..(i - 1) : stepLog[m] = VisibilityWaitOf(stepLog[i])

\* the reference of the page that an entry of a stored image list stands
\* for: the element a screenshot was taken of, or the entry itself
ShownAs(entry) ==
    IF entry.via = "shot" THEN Ref("http", entry.id, "page") ELSE entry

\* after is, position by position, a list the page shows with some of its
\* remote references replaced by the screenshot of their own element
CapturedInPlace(after) ==
    LET before == [i \in 1..Len(after) |-> ShownAs(after[i])]
    IN  /\ before \in PageImageLists
        /\ \A i \in 1..Len(after) :
              IF before[i].scheme = "http"
              THEN after[i] \in {before[i], ScreenshotOf(before[i])}
              ELSE after[i] = before[i]

\* C27: the capture pass of the harvest keeps the length and order of the
\* image list; entry i is the screenshot of the element of reference i or
\* reference i itself, an entry that is no http URL is always itself, and
\* the text fields and the caption of the record are those read from the
\* page.  Where no pass runs (QB_Scrape.js) the list is stored as read.
C27_CapturePassInPlace ==
    /\ [][(pc = "extract" /\ variant \in ScrapeVariants)
            => /\ CapturedInPlace(explanationData'.explanationImages)
               /\ [f \in SectionNames |-> explanationData'[f]] \in SectionTexts
               /\ explanationData'.imageDiagnosisCaption \in Captions]_vars
    /\ [][(pc = "extract" /\ variant \in QuestionVariants)
            => /\ CapturedInPlace(explanationData'.explanationImages)
               /\ variant = "QB_Scrape"
                     => explanationData'.explanationImages \in PageImageLists
               /\ problemData' = problemData]_vars
    /\ [][(pc = "problem")
            => /\ Len(problemData'.problemImageSrcs) <= 1
               /\ \A i \in 1..Len(problemData'.problemImageSrcs) :
                     problemData'.problemImageSrcs[i] \in
                        IF variant = "QB_Scrape_Ver3"
                        THEN {H1, ScreenshotOf(H1)} ELSE {H1}]_vars

\* part_001 stored a two-image list whose inline first entry is as read
\* and whose remote second entry is the screenshot of its element
C27_Witness ==
    /\ variant = "part_001"
    /\ pc = "advance"
    /\ explanationData.explanationImages = <<D1, ScreenshotOf(H2)>>
    /\ results[Len(results)].explanation.explanationImages
          = <<D1, ScreenshotOf(H2)>>

\* C28: the result list of the harvest only grows at its end, by at most
\* one record per step, and never holds more records than iterations were
\* started, hence at most numPages; an item skipped after an explanation
\* timeout appends nothing and still moves the loop counter on.
C28_ResultsAppendOnlyAndBounded ==
    /\ [](/\ Len(results) <= NumPages
          /\ pageIndex <= NumPages
          /\ Len(results) <= pageIndex + 1
          /\ pc = "loop" => Len(results) <= pageIndex)
    /\ [][\/ results' = results
          \/ /\ Len(results') = Len(results) + 1
             /\ SubSeq(results', 1, Len(results)) = results
             /\ pc = "extract"]_vars
    /\ [][(pc = "explWait" /\ pc' = "loop")
            => results' = results /\ pageIndex' = pageIndex + 1]_vars

\* QB_Scrape.js skipped its first item after an explanation timeout and
\* appended the second: two iterations are used up, one record is held
C28_Witness ==
    /\ variant = "QB_Scrape"
    /\ pc = "loop"
    /\ pageIndex = 2
    /\ Len(results) = 1
    /\ results[1].problem.problemNumber \in {"1", "2"}

(***************************************************************************)
(* Properties of the merged document, under SpecPdf.                       *)
(***************************************************************************)
Min(a, b) == IF a < b THEN a ELSE b

\* the positions of the merged document holding pages of the given origin
PositionsFrom(m, origin) == {a \in 1..Len(m) : m[a].from = origin}

\* the positions holding pages generated for item i
PositionsOfItem(m, i) ==
    {a \in PositionsFrom(m, "scraped") : m[a].item = i}

\* C29: for a reference document of P pages and N merged items, the merged
\* document holds exactly min(P, 4N) reference pages plus the pages
\* generated for the N items: each item's generated pages 0..c-1 are there
\* once each (c >= 1), also when its reference group is empty; no reference
\* page is copied twice; no reference page of index >= 4N (or >= P)
\* appears; and each merge iteration appends its reference group followed
\* by exactly the pages generated for its item.
C29_MergedPageCount ==
    /\ [](variant = "part_001" =>
            LET m == mergedPdf
                base == PositionsFrom(m, "base")
                scr == PositionsFrom(m, "scraped")
            IN  /\ Cardinality(base)
                      = Min(basePageCount, GroupSize * docIndex)
                /\ Len(m) = Min(basePageCount, GroupSize * docIndex)
                               + Cardinality(scr)
                /\ \A a \in base : \A b \in base :
                      a # b => m[a].page # m[b].page
                /\ \A a \in base :
                      /\ m[a].page < GroupSize * docIndex
                      /\ m[a].page < basePageCount
                /\ \A a \in scr : m[a].item \in 0..(docIndex - 1)
                /\ \A i \in 0..(docIndex - 1) :
                      LET own == PositionsOfItem(m, i)
                      IN  /\ Cardinality(own) >= 1
                          /\ {m[a].page : a \in own}
                                = 0..(Cardinality(own) - 1))
    /\ [][(variant = "part_001" /\ docIndex' = docIndex + 1) =>
            \E c \in 1..MaxItemPages :
               /\ Len(mergedPdf')
                     = Len(mergedPdf)
                       + Len(BaseGroup(docIndex, basePageCount)) + c
               /\ SubSeq(mergedPdf', Len(mergedPdf') - c + 1, Len(mergedPdf'))
                     = ScrapedPages(docIndex, c)]_vars

\* a reference document of 5 pages merged with 3 items: the second item
\* has the short group [4] and two generated pages, the third item has no
\* reference page left and its generated page is appended all the same
C29_Witness ==
    /\ variant = "part_001"
    /\ pc = "done"
    /\ basePageCount = 5
    /\ docIndex = 3
    /\ mergedPdf = << BasePage(0), BasePage(1), BasePage(2), BasePage(3),
                      ScrapedPage(0, 0),
                      BasePage(4),
                      ScrapedPage(1, 0), ScrapedPage(1, 1),
                      ScrapedPage(2, 0) >>

(***************************************************************************)
(* Properties of the remote branch of processImage, under SpecResolve.     *)
(***************************************************************************)
\* C30: for every remote (non-inline) reference, the result of
\* processImage has dataUrl null exactly when dimensions is null: a result
\* carrying fetched bytes carries their measured dimensions, and bytes
\* that were fetched but cannot be measured are discarded, the result
\* being the failure value, for which the assembler pushes the error
\* placeholder.
C30_RemoteResultAllOrNothing ==
    \A k \in 1..Len(resolved) :
        LET src == resolved[k].src
            resp == resolved[k].resp
            result == resolved[k].result
        IN  src.scheme = "http" =>
               /\ result.dataUrl = Null <=> result.dimensions = Null
               /\ result.dataUrl # Null
                     => /\ result.dataUrl = Some(FetchedOf(src))
                        /\ resp.net = "ok"
                        /\ result.dimensions = resp.size
               /\ (resp.net = "ok" /\ resp.size = Null)
                     => /\ result = [dataUrl |-> Null, dimensions |-> Null]
                        /\ SingleImage(result, "ExplanationImageError")
                              = ErrorBlock("ExplanationImageError")

\* a remote reference whose bytes arrived but could not be measured was
\* resolved to the failure value
C30_Witness ==
    /\ Len(resolved) >= 1
    /\ resolved[1].src = H1
    /\ resolved[1].resp = Response("ok", Null)
    /\ resolved[1].result = [dataUrl |-> Null, dimensions |-> Null]

(***************************************************************************)
(* Properties of the scroll pass, under SpecScroll.                        *)
(***************************************************************************)
\* C25: every step of an iteration ends after a bounded number of steps;
\* in particular the scroll pass autoScroll ends, also on a page whose
\* scroll height keeps growing, so that the harvest function can return.
C25_ScrollPassEnds == <>scrollDone

====
